---- MODULE Spec2Model ----
(***************************************************************************)
(* Telecommand dashboard: the entity schema (operators, satellites,        *)
(* telecommands, execution_logs) with its foreign keys and ORM             *)
(* relationships, the DatabaseManager session factory, and the Telecommand *)
(* status lifecycle helper.                                                *)
(*                                                                         *)
(* Three specifications share the module:                                  *)
(*   Spec          - units of work against the entity store                *)
(*   SpecManager   - DatabaseManager / DatabaseConfig / scoped sessions    *)
(*   SpecLifecycle - Telecommand.update_status on one object               *)
(***************************************************************************)
EXTENDS Integers, Sequences, FiniteSets, TLC

(***************************************************************************)
(* Bounds of the model.                                                    *)
(***************************************************************************)
MaxOperators == 2
MaxSatellites == 2
MaxTelecommands == 2
MaxLogs == 2
\* rows the store holds at most, over the four tables
MaxRows == 6

OperatorIds == 1..MaxOperators
SatelliteIds == 1..MaxSatellites
TelecommandIds == 1..MaxTelecommands
LogIds == 1..MaxLogs

\* init_db calls, threads and units of work of one process (SpecManager)
MaxConfigs == 2
MaxUnits == 2
\* the latest reading of the clock (SpecLifecycle)
MaxClock == 3

\* Two threads: enough for two units of work to run in the same thread or in
\* different ones.
Threads == {"MainThread", "Thread-1"}
Units == 1..MaxUnits

\* SQL NULL / Python None in an integer column (ids and timestamps start at 1).
NULL == 0
\* A class attribute that was never assigned: reading it raises AttributeError.
Absent == -1

VARIABLES
    db,         \* the committed rows: operators, satellites, telecommands, execution_logs
    last,       \* the last unit of work: operation, the row deleted, outcome, rows removed
    _instance,  \* DatabaseManager._instance (FALSE: None)
    _db_config, \* DatabaseManager._db_config: Absent, NULL or the index of a configuration
    configs,    \* the DatabaseConfig objects created so far, in order of creation
    engines,    \* the number of engines (connection pools) created so far
    held,       \* the session each unit of work holds: <<config, thread>>, or <<>>
    call,       \* the last DatabaseManager call and its outcome
    telecommand, \* a Telecommand object: status, status_message, sent_at, confirmed_at
    now,        \* datetime.now(timezone.utc)
    arg,        \* the arguments of the update_status call this step made, if it made
                \* one, and the telecommand before the call
    req,        \* the last request to a route or write through the ORM, or the last
                \* call on the Operator object, and its outcome
    operator,   \* an Operator object in memory, not added to a session
    plaintext,  \* the password last assigned to it: <<password>>, or <<>> if none was
    handler     \* the request a route handler is serving: its position, the state of
                \* the session it obtained and the session calls it has made

storeVars == <<db, last>>
managerVars == <<_instance, _db_config, configs, engines, held, call>>
lifecycleVars == <<telecommand, now, arg>>
objectVars == <<operator, plaintext>>
vars == <<db, last, _instance, _db_config, configs, engines, held, call,
          telecommand, now, arg, req, operator, plaintext, handler>>

(***************************************************************************)
(* Schema: foreign keys (storage level) and relationships (ORM level).     *)
(***************************************************************************)
\* (a foreign key declared without ondelete: the storage engine's NO ACTION)
Telecommand_satellite_id_NoAction ==
    [ondelete |-> "NO ACTION", nullable |-> FALSE]
Telecommand_satellite_id ==
    [ondelete |-> "CASCADE", nullable |-> FALSE]
Telecommand_operator_id ==
    [ondelete |-> "SET DEFAULT", nullable |-> FALSE, server_default |-> 1]
ExecutionLog_telecommand_id ==
    [ondelete |-> "CASCADE", nullable |-> FALSE]
ExecutionLog_created_by ==
    [ondelete |-> "SET NULL", nullable |-> TRUE]

Operator_telecommands ==
    [cascade_delete |-> TRUE, passive_deletes |-> FALSE]
\* (the relationship given cascade="all, delete-orphan" like its neighbours)
Operator_execution_logs_CascadeAll ==
    [cascade_delete |-> TRUE, passive_deletes |-> FALSE]
Operator_execution_logs ==
    [cascade_delete |-> FALSE, passive_deletes |-> FALSE]
Satellite_telecommands ==
    [cascade_delete |-> TRUE, passive_deletes |-> TRUE]
Telecommand_execution_logs ==
    [cascade_delete |-> TRUE, passive_deletes |-> TRUE]

UpperCase ==
    <<"A", "B", "C", "D", "E", "F", "G", "H", "I", "J", "K", "L", "M",
      "N", "O", "P", "Q", "R", "S", "T", "U", "V", "W", "X", "Y", "Z">>

LowerCase ==
    <<"a", "b", "c", "d", "e", "f", "g", "h", "i", "j", "k", "l", "m",
      "n", "o", "p", "q", "r", "s", "t", "u", "v", "w", "x", "y", "z">>

\* str.lower(): every upper-case letter becomes its lower-case letter.
lower(str) ==
    [i \in DOMAIN str |->
        IF \E k \in DOMAIN UpperCase : UpperCase[k] = str[i]
        THEN LowerCase[CHOOSE k \in DOMAIN UpperCase : UpperCase[k] = str[i]]
        ELSE str[i]]

\* A telecommand status as the characters of the string, so that lower() has
\* work to do.
Pending == <<"p", "e", "n", "d", "i", "n", "g">>
Queued == <<"q", "u", "e", "u", "e", "d">>
Sent == <<"s", "e", "n", "t">>
Confirmed == <<"c", "o", "n", "f", "i", "r", "m", "e", "d">>
Failed == <<"f", "a", "i", "l", "e", "d">>

\* The n-th username, email and satellite code of the callers.
Username(n) == <<"user", n>>
Email(n) == <<"user", n, "@example.com">>
Code(n) == <<"SAT", n>>

\* Rows as the constructors and the column defaults make them.
Operator(username, email, role, status) ==
    [username |-> username, email |-> email, role |-> role, status |-> status]
Satellite(code, status) ==
    [code |-> code, status |-> status, created_at |-> NULL, updated_at |-> NULL]
Telecommand(satellite_id, operator_id, parameters, status, priority) ==
    [satellite_id |-> satellite_id, operator_id |-> operator_id,
     command_type |-> "PING", metadata_ |-> <<>>,
     parameters |-> parameters, status |-> status, status_message |-> "None",
     created_at |-> NULL, sent_at |-> NULL, confirmed_at |-> NULL,
     priority |-> priority]
ExecutionLog(telecommand_id, created_by) ==
    [telecommand_id |-> telecommand_id, created_by |-> created_by,
     created_at |-> NULL]

Remove(rows, ids) == [r \in DOMAIN rows \ ids |-> rows[r]]
Put(rows, id, row) == [r \in DOMAIN rows \cup {id} |-> IF r = id THEN row ELSE rows[r]]

\* INSERT into satellites: created_at and updated_at have server_default
\* func.now().
InsertSatelliteRow(rows, id, row, clock) ==
    Put(rows, id, [row EXCEPT !.created_at = clock, !.updated_at = clock])

\* The before_update listener of Satellite.
update_updated_at(target, clock) == [target EXCEPT !.updated_at = clock]

\* The clock reading at which the process imported the model modules: the
\* first reading.
ImportTime == 1

\* ExecutionLog.created_at has default=datetime.now(timezone.utc): the call
\* is made once, when the class body runs, and its value is the default of
\* every row.
ExecutionLog_created_at_default == ImportTime

\* INSERT into execution_logs: a row built without created_at gets the
\* column default.
InsertLogRow(rows, id, row) ==
    Put(rows, id, [row EXCEPT !.created_at = ExecutionLog_created_at_default])

\* INSERT into telecommands: created_at has server_default func.now() and the
\* constructors never pass it.
InsertTelecommandRow(rows, id, row, clock) ==
    Put(rows, id, [row EXCEPT !.created_at = clock])
Referencing(rows, col, parents) == {r \in DOMAIN rows : rows[r][col] \in parents}

(***************************************************************************)
(* Storage engine: the foreign-key check made at the end of each statement *)
(* and the referential action of each foreign key when parents are deleted.*)
(***************************************************************************)
\* (a storage engine that does not enforce foreign keys)
ForeignKeysOk_NotEnforced(d) == TRUE
ForeignKeysOk(d) ==
    /\ \A t \in DOMAIN d.telecommands :
          /\ d.telecommands[t].satellite_id \in DOMAIN d.satellites
          /\ d.telecommands[t].operator_id \in DOMAIN d.operators
    /\ \A l \in DOMAIN d.execution_logs :
          /\ d.execution_logs[l].telecommand_id \in DOMAIN d.telecommands
          /\ \/ /\ ExecutionLog_created_by.nullable
                /\ d.execution_logs[l].created_by = NULL
             \/ d.execution_logs[l].created_by \in DOMAIN d.operators

OnDelete(rows, col, fk, parents) ==
    LET hit == Referencing(rows, col, parents) IN
    CASE fk.ondelete = "CASCADE" -> Remove(rows, hit)
      [] fk.ondelete = "SET NULL" ->
            [r \in DOMAIN rows |->
                IF r \in hit THEN [rows[r] EXCEPT ![col] = NULL] ELSE rows[r]]
      [] fk.ondelete = "SET DEFAULT" ->
            [r \in DOMAIN rows |->
                IF r \in hit THEN [rows[r] EXCEPT ![col] = fk.server_default]
                ELSE rows[r]]
      [] OTHER -> rows

\* DELETE FROM execution_logs WHERE id IN ids
DbDeleteLogs(d, ids) ==
    [d EXCEPT !.execution_logs = Remove(@, ids)]

\* DELETE FROM telecommands WHERE id IN ids
DbDeleteTelecommands(d, ids) ==
    [d EXCEPT !.telecommands = Remove(@, ids),
              !.execution_logs =
                  OnDelete(@, "telecommand_id", ExecutionLog_telecommand_id, ids)]

\* The referential action of a foreign key of telecommands; a cascade goes on
\* to the execution logs of the telecommands it deletes.
OnDeleteTelecommands(d, col, fk, parents) ==
    IF fk.ondelete = "CASCADE"
    THEN DbDeleteTelecommands(d, Referencing(d.telecommands, col, parents))
    ELSE [d EXCEPT !.telecommands = OnDelete(@, col, fk, parents)]

\* DELETE FROM satellites WHERE id = s
DbDeleteSatellite(d, s) ==
    [OnDeleteTelecommands(d, "satellite_id", Telecommand_satellite_id, {s})
        EXCEPT !.satellites = Remove(@, {s})]

\* DELETE FROM operators WHERE id = o
DbDeleteOperator(d, o) ==
    LET d1 == OnDeleteTelecommands(d, "operator_id", Telecommand_operator_id, {o}) IN
    [d1 EXCEPT !.operators = Remove(@, {o}),
               !.execution_logs =
                   OnDelete(@, "created_by", ExecutionLog_created_by, {o})]

valid_status_Missing(row) == TRUE

valid_status_CaseInsensitive(row) ==
    lower(row.status) \in {Pending, Queued, Sent, Confirmed, Failed}

\* CheckConstraint valid_status of telecommands
valid_status(row) == row.status \in {Pending, Queued, Sent, Confirmed, Failed}

valid_priority_FromZero(row) == row.priority >= 0 /\ row.priority <= 10

\* CheckConstraint valid_priority of telecommands
valid_priority(row) == row.priority >= 1 /\ row.priority <= 10

valid_operator_role_Missing(row) == TRUE

\* CheckConstraint valid_operator_role
valid_operator_role(row) == row.role \in {"admin", "operator", "viewer"}

\* CheckConstraint valid_operator_status
valid_operator_status(row) == row.status \in {"active", "inactive", "suspended"}

\* CheckConstraint valid_satellite_status
valid_satellite_status(row) == row.status \in {"active", "inactive", "maintenance"}

CheckConstraintsOk(d) ==
    /\ \A t \in DOMAIN d.telecommands :
          valid_status(d.telecommands[t]) /\ valid_priority(d.telecommands[t])
    /\ \A o \in DOMAIN d.operators :
          valid_operator_role(d.operators[o]) /\ valid_operator_status(d.operators[o])
    /\ \A x \in DOMAIN d.satellites : valid_satellite_status(d.satellites[x])

Unique_NotEnforced(rows, col) == TRUE

\* A column declared unique=True: no two rows of the table hold the same value.
Unique(rows, col) ==
    \A r1, r2 \in DOMAIN rows : rows[r1][col] = rows[r2][col] => r1 = r2

UniqueOk(d) ==
    /\ Unique(d.operators, "username")
    /\ Unique(d.operators, "email")
    /\ Unique(d.satellites, "code")

\* What the storage engine checks of each statement.
ConstraintsOk(d) == ForeignKeysOk(d) /\ CheckConstraintsOk(d) /\ UniqueOk(d)

\* A transaction: the states after each of its statements. A statement that
\* breaks a constraint raises IntegrityError and the caller rolls the whole
\* unit of work back.
Transaction(d, steps) ==
    IF \A i \in DOMAIN steps : ConstraintsOk(steps[i])
    THEN [db |-> IF steps = <<>> THEN d ELSE steps[Len(steps)], result |-> "ok"]
    ELSE [db |-> d, result |-> "IntegrityError"]

(***************************************************************************)
(* ORM unit of work for session.delete(obj) followed by flush/commit.      *)
(* `loaded` tells whether the session already holds the child collections: *)
(* a relationship with passive_deletes leaves children that are not loaded *)
(* to the storage engine, one without it loads the collection.             *)
(***************************************************************************)
OrmChildren(rel, children, loaded) ==
    IF rel.passive_deletes /\ ~loaded THEN {} ELSE children

\* cascade="all, delete-orphan": the children the session marks deleted.
OrmCascade(rel, children, loaded) ==
    IF rel.cascade_delete THEN OrmChildren(rel, children, loaded) ELSE {}

\* No delete cascade and no passive_deletes: the unit of work loads the
\* children and sets their foreign key to NULL.
OrmNullify(rel, rows, col, parents, deleted) ==
    IF rel.cascade_delete \/ rel.passive_deletes THEN rows
    ELSE [r \in DOMAIN rows |->
            IF rows[r][col] \in parents /\ r \notin deleted
            THEN [rows[r] EXCEPT ![col] = NULL] ELSE rows[r]]

OrmDeleteTelecommand(d, t, loaded) ==
    LET logs == OrmCascade(Telecommand_execution_logs,
                    Referencing(d.execution_logs, "telecommand_id", {t}), loaded)
        d1 == [d EXCEPT !.execution_logs =
                  OrmNullify(Telecommand_execution_logs, @, "telecommand_id", {t}, logs)]
        d2 == DbDeleteLogs(d1, logs)
        d3 == DbDeleteTelecommands(d2, {t})
    IN Transaction(d, <<d1, d2, d3>>)

OrmDeleteSatellite(d, s, loaded) ==
    LET tcs == OrmCascade(Satellite_telecommands,
                    Referencing(d.telecommands, "satellite_id", {s}), loaded)
        logs == OrmCascade(Telecommand_execution_logs,
                    Referencing(d.execution_logs, "telecommand_id", tcs), loaded)
        d1 == [d EXCEPT !.telecommands =
                  OrmNullify(Satellite_telecommands, @, "satellite_id", {s}, tcs),
                        !.execution_logs =
                  OrmNullify(Telecommand_execution_logs, @, "telecommand_id", tcs, logs)]
        d2 == DbDeleteLogs(d1, logs)
        d3 == DbDeleteTelecommands(d2, tcs)
        d4 == DbDeleteSatellite(d3, s)
    IN Transaction(d, <<d1, d2, d3, d4>>)

OrmDeleteOperator(d, o, loaded) ==
    LET tcs == OrmCascade(Operator_telecommands,
                    Referencing(d.telecommands, "operator_id", {o}), loaded)
        logs == OrmCascade(Telecommand_execution_logs,
                    Referencing(d.execution_logs, "telecommand_id", tcs), loaded)
                \cup OrmCascade(Operator_execution_logs,
                    Referencing(d.execution_logs, "created_by", {o}), loaded)
        d1 == [d EXCEPT !.telecommands =
                  OrmNullify(Operator_telecommands, @, "operator_id", {o}, tcs),
                        !.execution_logs =
                  OrmNullify(Operator_execution_logs,
                      OrmNullify(Telecommand_execution_logs, @, "telecommand_id", tcs, logs),
                      "created_by", {o}, logs)]
        d2 == DbDeleteLogs(d1, logs)
        d3 == DbDeleteTelecommands(d2, tcs)
        d4 == DbDeleteOperator(d3, o)
    IN Transaction(d, <<d1, d2, d3, d4>>)

LogsOf(d, tcs) == Referencing(d.execution_logs, "telecommand_id", tcs)

(***************************************************************************)
(* Units of work. Each is one session's transaction: flush and commit, or  *)
(* rollback when the flush raises.                                         *)
(***************************************************************************)
Rows(d) ==
    Cardinality(DOMAIN d.operators) + Cardinality(DOMAIN d.satellites)
        + Cardinality(DOMAIN d.telecommands) + Cardinality(DOMAIN d.execution_logs)

Done(op, id, r) ==
    /\ db' = r.db
    /\ last' = [op |-> op, id |-> id, result |-> r.result,
                removed |-> Rows(db) - Rows(r.db)]
    /\ UNCHANGED <<managerVars, lifecycleVars, req, objectVars, handler>>

\* The primary key a new row gets (explicit, or from the table's sequence).
NewId(ids, rows) == CHOOSE id \in ids \ DOMAIN rows : \A j \in ids \ DOMAIN rows : id <= j

\* session.add(Operator(...)) + flush; the tests also insert Operator(id=1).
InsertOperator ==
    /\ Rows(db) < MaxRows
    /\ \E id \in OperatorIds \ DOMAIN db.operators :
        Done("insert_operator", NULL,
             Transaction(db, <<[db EXCEPT !.operators = Put(@, id, Operator(Username(id), Email(id), "operator", "active"))]>>))

\* session.add(Satellite(...)) + flush
InsertSatellite ==
    /\ Rows(db) < MaxRows
    /\ SatelliteIds \ DOMAIN db.satellites # {}
    /\ LET id == NewId(SatelliteIds, db.satellites) IN
        Done("insert_satellite", NULL,
             Transaction(db, <<[db EXCEPT !.satellites = InsertSatelliteRow(@, id, Satellite(Code(id), "active"), now)]>>))

\* session.add(Telecommand(satellite_id=..., operator_id=...)) + flush/commit
InsertTelecommand ==
    /\ Rows(db) < MaxRows
    /\ TelecommandIds \ DOMAIN db.telecommands # {}
    /\ \E s \in SatelliteIds, o \in OperatorIds :
        LET id == NewId(TelecommandIds, db.telecommands) IN
        Done("insert_telecommand", NULL,
             Transaction(db, <<[db EXCEPT !.telecommands = InsertTelecommandRow(@, id, Telecommand(s, o, <<>>, Pending, 5), now)]>>))

\* session.add(ExecutionLog(telecommand_id=..., created_by=...)) + flush
InsertLog ==
    /\ Rows(db) < MaxRows
    /\ LogIds \ DOMAIN db.execution_logs # {}
    /\ \E t \in TelecommandIds, o \in OperatorIds \cup {NULL} :
        LET id == NewId(LogIds, db.execution_logs) IN
        Done("insert_log", NULL,
             Transaction(db, <<[db EXCEPT !.execution_logs = InsertLogRow(@, id, ExecutionLog(t, o))]>>))

\* update route: tc.satellite_id = int(data['satellite_id']); commit
UpdateTelecommandSatellite ==
    \E t \in DOMAIN db.telecommands, s \in SatelliteIds :
        Done("update_telecommand", NULL,
             Transaction(db, <<[db EXCEPT !.telecommands[t].satellite_id = s]>>))

\* session.delete(operator) + flush
DeleteOperator ==
    \E o \in DOMAIN db.operators :
    \E loaded \in BOOLEAN :
        Done("delete_operator", o, OrmDeleteOperator(db, o, loaded))

\* session.delete(satellite) + flush
DeleteSatellite ==
    \E s \in DOMAIN db.satellites :
    \E loaded \in BOOLEAN :
        Done("delete_satellite", s, OrmDeleteSatellite(db, s, loaded))

\* session.delete(tc) + flush/commit (tests and the delete route)
DeleteTelecommand ==
    \E t \in DOMAIN db.telecommands :
    \E loaded \in BOOLEAN :
        Done("delete_telecommand", t, OrmDeleteTelecommand(db, t, loaded))

EmptyDb ==
    [operators |-> <<>>, satellites |-> <<>>, telecommands |-> <<>>,
     execution_logs |-> <<>>]

StoreInit ==
    /\ db = EmptyDb
    /\ last = [op |-> "none", id |-> NULL, result |-> "ok", removed |-> 0]

\* A fresh process: the class body assigns _instance only.
ManagerInit ==
    /\ _instance = FALSE
    /\ _db_config = Absent
    /\ configs = <<>>
    /\ engines = 0
    /\ held = [u \in Units |-> <<>>]
    /\ call = [op |-> "none", result |-> "none"]

\* Telecommand(status="pending"): no status message, never sent or confirmed.
LifecycleInit ==
    /\ telecommand = [status |-> Pending, status_message |-> "None",
                      sent_at |-> NULL, confirmed_at |-> NULL]
    /\ now = 1
    /\ arg = [called |-> FALSE, new_status |-> <<>>, message |-> "None",
              before |-> telecommand]

\* No request yet.
NoRequest == [op |-> "none", result |-> "none"]

\* No handler is running: no session obtained, no session call made.
NoHandler == [route |-> "none", pc |-> "idle", session |-> "none", calls |-> <<>>,
              path |-> "none"]

\* The salt generate_password_hash draws for one call.
Salts == {"salt1", "salt2"}

\* The value of the key derivation for a password and a salt, as a term:
\* two values are equal exactly when password and salt are.
scrypt(password, salt) == [scrypt |-> password, salt |-> salt]

\* werkzeug.security.generate_password_hash: method$salt$hash
generate_password_hash(password, salt) ==
    <<"scrypt", "$", salt, "$", scrypt(password, salt)>>

\* werkzeug.security.check_password_hash: a text without two '$' is no hash;
\* otherwise the password is hashed again with the stored salt and compared.
check_password_hash(pwhash, password) ==
    /\ Len(pwhash) = 5
    /\ pwhash[1] = "scrypt" /\ pwhash[2] = "$" /\ pwhash[4] = "$"
    /\ pwhash[5] = scrypt(password, pwhash[3])

\* datetime.isoformat()
isoformat(t) == <<"iso", t>>

set_password_StoresPlaintext(self, password, salt) ==
    [self EXCEPT !.password_hash = password]

\* Operator.password setter
set_password(self, password, salt) ==
    [self EXCEPT !.password_hash = generate_password_hash(password, salt)]

\* Operator.password getter: raises
get_password(self) == "AttributeError"

\* Operator.verify_password, for an operator that has a password hash
verify_password(self, password) == check_password_hash(self.password_hash, password)

\* Operator.to_dict
to_dict(self, include_sensitive) ==
    LET data == [id |-> self.id, username |-> self.username, email |-> self.email,
                 full_name |-> self.full_name, role |-> self.role,
                 status |-> self.status,
                 created_at |-> IF self.created_at # NULL
                                THEN isoformat(self.created_at) ELSE <<>>,
                 last_login |-> IF self.last_login # NULL
                                THEN isoformat(self.last_login) ELSE <<>>]
    IN  IF include_sensitive
        THEN [k \in DOMAIN data \cup {"password_hash"} |->
                 IF k = "password_hash" THEN self.password_hash ELSE data[k]]
        ELSE data

\* Operator(**attrs) or Operator(password=..., **attrs): the constructor
\* assigns each keyword, the password through the setter.  password is
\* <<text>>, or <<>> when none is given (password_hash stays None: <<>>).
new_operator(attrs, password, salt) ==
    LET self == [id |-> attrs.id, username |-> attrs.username, email |-> attrs.email,
                 full_name |-> attrs.full_name, role |-> attrs.role,
                 status |-> attrs.status, created_at |-> attrs.created_at,
                 last_login |-> attrs.last_login, password_hash |-> <<>>]
    IN  IF password = <<>> THEN self ELSE set_password(self, password[1], salt)

\* The keywords of test_to_dict_format, with and without the timestamps and
\* with either role.
OperatorAttrs ==
    [id : {1}, username : {Username(1)}, email : {Email(1)}, full_name : {"Test"},
     role : {"operator", "admin"}, status : {"active"},
     created_at : {NULL, 1}, last_login : {NULL, 1}]

\* An Operator object built without a password.
ObjectInit ==
    /\ operator = new_operator([id |-> 1, username |-> Username(1), email |-> Email(1),
                                full_name |-> "Test", role |-> "operator",
                                status |-> "active", created_at |-> NULL,
                                last_login |-> NULL], <<>>, "salt1")
    /\ plaintext = <<>>

Init == StoreInit /\ ManagerInit /\ LifecycleInit /\ req = NoRequest /\ handler = NoHandler /\ ObjectInit

Next ==
    \/ InsertOperator
    \/ InsertSatellite
    \/ InsertTelecommand
    \/ InsertLog
    \/ UpdateTelecommandSatellite
    \/ DeleteOperator
    \/ DeleteSatellite
    \/ DeleteTelecommand

Spec == Init /\ [][Next]_vars

(***************************************************************************)
(* Delete policies and referential integrity (specification Spec).         *)
(* In a step, db is the store before the unit of work and db' after it;    *)
(* last' names the unit of work.                                           *)
(***************************************************************************)
OwnedBy(d, o) == Referencing(d.telecommands, "operator_id", {o})

\* C1: deleting an Operator through the session never deletes the
\* telecommands it owns: provided an operator with id 1 exists, each of them
\* still exists after the delete and has operator_id = 1.
C1_OperatorDeleteReassigns ==
    [][ (/\ last'.op = "delete_operator"
         /\ last'.result = "ok"
         /\ 1 \in DOMAIN db'.operators)
        => \A t \in OwnedBy(db, last'.id) :
              /\ t \in DOMAIN db'.telecommands
              /\ db'.telecommands[t].operator_id = 1 ]_vars

\* C2: deleting an Operator leaves every execution log it created in
\* existence, with created_by = NULL, also a log whose telecommand the
\* deleted operator owns.
C2_OperatorDeleteNullsCreatedBy ==
    [][ (last'.op = "delete_operator" /\ last'.result = "ok")
        => \A l \in Referencing(db.execution_logs, "created_by", {last'.id}) :
              /\ l \in DOMAIN db'.execution_logs
              /\ db'.execution_logs[l].created_by = NULL ]_vars

\* C3: deleting an Operator that owns a telecommand while no other operator
\* has id 1 fails with an integrity violation and changes nothing.
C3_OperatorDeleteNeedsFallback ==
    [][ (/\ last'.op = "delete_operator"
         /\ OwnedBy(db, last'.id) # {}
         /\ 1 \notin DOMAIN db.operators \ {last'.id})
        => (last'.result = "IntegrityError" /\ db' = db) ]_vars

\* C4: deleting a Satellite succeeds and removes exactly its telecommands and
\* the execution logs of those telecommands; every other telecommand and log
\* (and every operator and other satellite) stays as it was.
C4_SatelliteDeleteCascades ==
    [][ last'.op = "delete_satellite"
        => LET tcs == Referencing(db.telecommands, "satellite_id", {last'.id}) IN
           /\ last'.result = "ok"
           /\ db'.satellites = Remove(db.satellites, {last'.id})
           /\ db'.telecommands = Remove(db.telecommands, tcs)
           /\ db'.execution_logs = Remove(db.execution_logs, LogsOf(db, tcs))
           /\ db'.operators = db.operators ]_vars

\* a satellite was deleted together with at least two rows of its
\* telecommands and logs, and a telecommand of another satellite remains
C4_Witness ==
    /\ last.op = "delete_satellite"
    /\ last.result = "ok"
    /\ last.removed >= 3
    /\ DOMAIN db.telecommands # {}

\* C5: deleting a Telecommand succeeds and removes exactly the execution logs
\* that reference it; and in no unit of work at all is an execution log
\* removed while its telecommand stays.
C5_TelecommandDeleteCascades ==
    [][ /\ last'.op = "delete_telecommand"
            => /\ last'.result = "ok"
               /\ db'.telecommands = Remove(db.telecommands, {last'.id})
               /\ db'.execution_logs =
                      Remove(db.execution_logs, LogsOf(db, {last'.id}))
        /\ \A l \in DOMAIN db.execution_logs \ DOMAIN db'.execution_logs :
              db.execution_logs[l].telecommand_id \notin DOMAIN db'.telecommands
      ]_vars

\* a telecommand was deleted with a log of its own, and another log remains
C5_Witness ==
    /\ last.op = "delete_telecommand"
    /\ last.result = "ok"
    /\ last.removed >= 2
    /\ DOMAIN db.execution_logs # {}

\* C6: after every unit of work each telecommand's satellite_id and
\* operator_id name existing rows, each log's telecommand_id names an existing
\* telecommand and its created_by is NULL or names an existing operator; a
\* unit of work that raised IntegrityError changed nothing, so a row naming a
\* missing parent is never stored.
C6_ReferentialIntegrity ==
    [][ /\ \A t \in DOMAIN db'.telecommands :
              /\ db'.telecommands[t].satellite_id \in DOMAIN db'.satellites
              /\ db'.telecommands[t].operator_id \in DOMAIN db'.operators
        /\ \A l \in DOMAIN db'.execution_logs :
              /\ db'.execution_logs[l].telecommand_id \in DOMAIN db'.telecommands
              /\ db'.execution_logs[l].created_by \in DOMAIN db'.operators \cup {NULL}
        /\ last'.result = "IntegrityError" => db' = db
      ]_vars

\* an insert of a telecommand naming a missing satellite or operator was
\* refused while the store holds telecommands and logs
C6_Witness ==
    /\ last.op = "insert_telecommand"
    /\ last.result = "IntegrityError"
    /\ DOMAIN db.telecommands # {}
    /\ DOMAIN db.execution_logs # {}

(***************************************************************************)
(* The persistence access layer (specification SpecManager):               *)
(* DatabaseManager, the DatabaseConfig objects it creates and the          *)
(* scoped_session registry of each configuration.                          *)
(***************************************************************************)

DbTypes == {"sqlite", "postgresql_test", "postgresql"}

\* DatabaseConfig.__init__: no engine, no session factory.
DatabaseConfig(class, db_url) ==
    [class |-> class, db_url |-> db_url, engine |-> NULL,
     session_factory |-> FALSE, bind |-> NULL, registry |-> <<>>]

\* The configuration init_db builds for a db_type.
NewConfig(db_type) ==
    IF db_type = "sqlite" THEN DatabaseConfig("SQLiteConfig", "SQLITE_DATABASE_URL")
    ELSE IF db_type = "postgresql_test"
         THEN DatabaseConfig("PostgresConfig", "PG_DATABASE_URL_TEST")
         ELSE DatabaseConfig("PostgresConfig", "PG_DATABASE_URL")

\* A Session the sessionmaker builds: bound to the factory's engine, nothing
\* pending.  pending is the set of units of work with uncommitted changes in it.
Session(bind) == [bind |-> bind, pending |-> {}]

NoEngine_Always(cfg) == TRUE

\* `if not self.engine`
NoEngine(cfg) == cfg.engine = NULL

\* DatabaseConfig.create_session called in a thread; created is the number of
\* engines the process has created so far.  scoped_session returns the
\* thread's Session if its registry has one, and makes one otherwise.
create_session(cfg, thread, created) ==
    LET fresh == NoEngine(cfg)
        c1 == IF fresh THEN [cfg EXCEPT !.engine = created + 1] ELSE cfg
        c2 == IF ~c1.session_factory
              THEN [c1 EXCEPT !.session_factory = TRUE, !.bind = c1.engine,
                              !.registry = <<>>]
              ELSE c1
        c3 == IF thread \in DOMAIN c2.registry
              THEN c2
              ELSE [c2 EXCEPT !.registry = Put(c2.registry, thread, Session(c2.bind))]
    IN  [cfg |-> c3, engines |-> IF fresh THEN created + 1 ELSE created]

SessionOf(h) == configs[h[1]].registry[h[2]]

\* The pending changes of the session a unit holds become s.
SetPending(u, s) ==
    configs' = [configs EXCEPT ![held[u][1]].registry[held[u][2]].pending = s]

\* DatabaseManager(): the first instantiation also assigns _db_config = None.
New ==
    /\ IF ~_instance
       THEN _instance' = TRUE /\ _db_config' = NULL
       ELSE UNCHANGED <<_instance, _db_config>>
    /\ call' = [op |-> "__new__", result |-> "instance"]
    /\ UNCHANGED <<configs, engines, held, storeVars, lifecycleVars, req, objectVars, handler>>

\* DatabaseManager.init_db(db_type): create_app and the test classes call it
\* while they set up, in the main thread.
InitDb ==
    /\ Len(configs) < MaxConfigs
    /\ \E db_type \in DbTypes :
        LET r == create_session(NewConfig(db_type), "MainThread", engines)
            c == Len(configs) + 1
        IN  /\ configs' = Append(configs, r.cfg)
            /\ _db_config' = c
            /\ engines' = r.engines
            /\ call' = [op |-> "init_db", result |-> "session"]
    /\ UNCHANGED <<_instance, held, storeVars, lifecycleVars, req, objectVars, handler>>

\* DatabaseManager.get_session() called by a unit of work (a request, a
\* teardown hook, a test) that holds no session and runs in a thread.
GetSession ==
    \E u \in Units, thread \in Threads :
        /\ held[u] = <<>>
        /\ IF _db_config = Absent
           THEN /\ call' = [op |-> "get_session", result |-> "AttributeError"]
                /\ UNCHANGED <<configs, engines, held>>
           ELSE IF _db_config = NULL
           THEN /\ call' = [op |-> "get_session", result |-> "RuntimeError"]
                /\ UNCHANGED <<configs, engines, held>>
           ELSE LET r == create_session(configs[_db_config], thread, engines)
                    h == <<_db_config, thread>>
                IN  /\ configs' = [configs EXCEPT ![_db_config] = r.cfg]
                    /\ engines' = r.engines
                    /\ held' = [held EXCEPT ![u] = h]
                    /\ call' = [op |-> "get_session", result |-> "session"]
        /\ UNCHANGED <<_instance, _db_config, storeVars, lifecycleVars, req, objectVars, handler>>

\* session.add(...) / a mutation by the unit of work holding the session.
SessionAdd ==
    \E u \in Units :
        /\ held[u] # <<>>
        /\ SetPending(u, SessionOf(held[u]).pending \cup {u})
        /\ UNCHANGED <<_instance, _db_config, engines, held, call, storeVars, lifecycleVars, req, objectVars, handler>>

\* session.commit(): everything pending in the session is written.
SessionCommit ==
    \E u \in Units :
        /\ held[u] # <<>>
        /\ SetPending(u, {})
        /\ UNCHANGED <<_instance, _db_config, engines, held, call, storeVars, lifecycleVars, req, objectVars, handler>>

\* session.rollback(): everything pending in the session is discarded.
SessionRollback ==
    \E u \in Units :
        /\ held[u] # <<>>
        /\ SessionOf(held[u]).pending # {}
        /\ SetPending(u, {})
        /\ UNCHANGED <<_instance, _db_config, engines, held, call, storeVars, lifecycleVars, req, objectVars, handler>>

\* session.close(): the transaction ends and the unit lets go of the session,
\* which stays in the registry of its thread.
SessionClose ==
    \E u \in Units :
        /\ held[u] # <<>>
        /\ SetPending(u, {})
        /\ held' = [held EXCEPT ![u] = <<>>]
        /\ UNCHANGED <<_instance, _db_config, engines, call, storeVars, lifecycleVars, req, objectVars, handler>>

NextManager ==
    \/ New
    \/ InitDb
    \/ GetSession
    \/ SessionAdd
    \/ SessionCommit
    \/ SessionRollback
    \/ SessionClose

SpecManager == Init /\ [][NextManager]_vars

(***************************************************************************)
(* Sessions and configurations (specification SpecManager).                *)
(***************************************************************************)

\* C7: get_session() in a process in which init_db has never been called
\* (no configuration was ever created) fails with the RuntimeError
\* "Database not initialized" and returns no session.
C7_GetSessionBeforeInit ==
    (call.op = "get_session" /\ configs = <<>>) => call.result = "RuntimeError"

\* C8: every get_session() returns a session of its own: two units of work
\* that hold a session at the same time (also in the same thread) hold
\* different sessions, and a session holds the pending changes of nobody but
\* the unit that obtained it, so that a commit, rollback or close by one unit
\* touches no other unit's changes.
C8_SessionsIndependent ==
    /\ \A u, v \in Units :
          (u # v /\ held[u] # <<>> /\ held[v] # <<>>) => held[u] # held[v]
    /\ \A u \in Units :
          held[u] # <<>> => SessionOf(held[u]).pending \subseteq {u}

\* C9, as stated: the configuration is selected once and the engine is created
\* once in a process; a repeated init_db creates no second configuration or
\* engine.
C9_SingleEngine ==
    /\ Len(configs) <= 1
    /\ engines <= 1

\* C9, amended: the configuration is reused between two init_db calls and
\* replaced by each of them.  Every init_db creates one configuration and one
\* engine, get_session creates neither, the current configuration is the one
\* the last init_db created, and every session is bound to the engine of the
\* configuration it was obtained from.
C9_OneEnginePerConfiguration ==
    /\ engines = Len(configs)
    /\ \A c \in DOMAIN configs :
          /\ configs[c].engine = c
          /\ \A t \in DOMAIN configs[c].registry :
                configs[c].registry[t].bind = configs[c].engine
    /\ _db_config \in {Absent, NULL, Len(configs)}
    /\ call.op = "get_session" /\ call.result = "session" => _db_config = Len(configs)

\* Two init_db calls, and sessions of both configurations in use, the last one
\* obtained by get_session.
C9_Witness ==
    /\ Len(configs) = 2
    /\ engines = 2
    /\ call.op = "get_session" /\ call.result = "session"
    /\ \E u, v \in Units :
          /\ held[u] # <<>> /\ held[u][1] = 1
          /\ held[v] # <<>> /\ held[v][1] = 2

(***************************************************************************)
(* The status lifecycle helper (specification SpecLifecycle):              *)
(* Telecommand.update_status on one Telecommand object, and the clock.     *)
(***************************************************************************)

\* The values callers pass as new_status: the five statuses, spelled in lower
\* case or not, and a value that is no status.
NewStatuses ==
    { Pending, <<"q", "u", "e", "u", "e", "d">>, Sent, Confirmed,
      <<"f", "a", "i", "l", "e", "d">>,
      <<"S", "E", "N", "T">>, <<"S", "e", "n", "t">>,
      <<"C", "O", "N", "F", "I", "R", "M", "E", "D">>,
      <<"F", "a", "i", "l", "e", "d">>,
      <<"s", "e", "n", "d">> }

\* message: None (the default) or a text.
Messages == {"None", "Sending command"}

\* (a lifecycle enforced as pending -> queued -> sent -> confirmed, failed
\* from anywhere)
StatusRank(status) ==
    CASE status = Pending -> 1 [] status = Queued -> 2 [] status = Sent -> 3
      [] status = Confirmed -> 4 [] OTHER -> 5

update_status_ForwardOnly(self, new_status, message, clock) ==
    IF StatusRank(lower(new_status)) < StatusRank(self.status) THEN self
    ELSE LET s1 == [self EXCEPT !.status = lower(new_status),
                                !.status_message = message]
         IN  IF lower(new_status) = Sent
             THEN [s1 EXCEPT !.sent_at = clock]
             ELSE IF lower(new_status) = Confirmed
             THEN [s1 EXCEPT !.confirmed_at = clock]
             ELSE s1

update_status_NoOpWhenReached(self, new_status, message, clock) ==
    LET s1 == [self EXCEPT !.status = lower(new_status), !.status_message = message]
    IN  IF lower(new_status) = self.status THEN s1
        ELSE IF lower(new_status) = Sent
        THEN [s1 EXCEPT !.sent_at = clock]
        ELSE IF lower(new_status) = Confirmed
        THEN [s1 EXCEPT !.confirmed_at = clock]
        ELSE s1

update_status_KeepsFirstConfirmation(self, new_status, message, clock) ==
    LET s1 == [self EXCEPT !.status = lower(new_status), !.status_message = message]
    IN  IF lower(new_status) = Sent
        THEN [s1 EXCEPT !.sent_at = clock]
        ELSE IF lower(new_status) = Confirmed /\ self.confirmed_at = NULL
        THEN [s1 EXCEPT !.confirmed_at = clock]
        ELSE s1

update_status_ClearsOnPending(self, new_status, message, clock) ==
    LET s1 == [self EXCEPT !.status = lower(new_status), !.status_message = message]
    IN  IF lower(new_status) = Sent
        THEN [s1 EXCEPT !.sent_at = clock]
        ELSE IF lower(new_status) = Confirmed
        THEN [s1 EXCEPT !.confirmed_at = clock]
        ELSE IF lower(new_status) = Pending
        THEN [s1 EXCEPT !.sent_at = NULL, !.confirmed_at = NULL]
        ELSE s1

update_status_KeepsMessage(self, new_status, message, clock) ==
    LET s1 == [self EXCEPT !.status = lower(new_status),
                           !.status_message = IF message = "None" THEN @ ELSE message]
    IN  IF lower(new_status) = Sent
        THEN [s1 EXCEPT !.sent_at = clock]
        ELSE IF lower(new_status) = Confirmed
        THEN [s1 EXCEPT !.confirmed_at = clock]
        ELSE s1

update_status_StampsSentOnly(self, new_status, message, clock) ==
    LET s1 == [self EXCEPT !.status = lower(new_status), !.status_message = message]
    IN  IF lower(new_status) = Sent
        THEN [s1 EXCEPT !.sent_at = clock]
        ELSE s1

update_status_BackfillsSent(self, new_status, message, clock) ==
    LET s1 == [self EXCEPT !.status = lower(new_status), !.status_message = message]
    IN  IF lower(new_status) = Sent
        THEN [s1 EXCEPT !.sent_at = clock]
        ELSE IF lower(new_status) = Confirmed
        THEN [s1 EXCEPT !.confirmed_at = clock, !.sent_at = clock]
        ELSE s1

\* Telecommand.update_status(new_status, message), clock being what
\* datetime.now(timezone.utc) returns during the call.
update_status(self, new_status, message, clock) ==
    LET s1 == [self EXCEPT !.status = lower(new_status), !.status_message = message]
    IN  IF lower(new_status) = Sent
        THEN [s1 EXCEPT !.sent_at = clock]
        ELSE IF lower(new_status) = Confirmed
        THEN [s1 EXCEPT !.confirmed_at = clock]
        ELSE s1

UpdateStatus ==
    /\ \E new_status \in NewStatuses, message \in Messages :
        /\ telecommand' = update_status(telecommand, new_status, message, now)
        /\ arg' = [called |-> TRUE, new_status |-> new_status, message |-> message,
                   before |-> telecommand]
    /\ UNCHANGED <<now, storeVars, managerVars, req, objectVars, handler>>

\* Time passes between two calls.
Tick ==
    /\ now < MaxClock
    /\ now' = now + 1
    /\ arg' = [called |-> FALSE, new_status |-> <<>>, message |-> "None",
               before |-> telecommand]
    /\ UNCHANGED <<telecommand, storeVars, managerVars, req, objectVars, handler>>

NextLifecycle ==
    \/ UpdateStatus
    \/ Tick

SpecLifecycle == Init /\ [][NextLifecycle]_vars

\* C10: update_status stamps one timestamp or none.  When the status it
\* stores (the new status in lower case) is 'sent' it sets sent_at to the current time and leaves
\* confirmed_at as it was; when it is 'confirmed' it sets confirmed_at and
\* leaves sent_at as it was; with any other status ('pending', 'queued',
\* 'failed', a value that is no status) both timestamps stay as they were.
C10_OneTimestampOrNone ==
    [][ arg'.called =>
          /\ telecommand'.status = Sent =>
                /\ telecommand'.sent_at = now
                /\ telecommand'.confirmed_at = telecommand.confirmed_at
          /\ telecommand'.status = Confirmed =>
                /\ telecommand'.confirmed_at = now
                /\ telecommand'.sent_at = telecommand.sent_at
          /\ telecommand'.status \notin {Sent, Confirmed} =>
                /\ telecommand'.sent_at = telecommand.sent_at
                /\ telecommand'.confirmed_at = telecommand.confirmed_at
          /\ telecommand'.status = lower(arg'.new_status) ]_vars

\* Sent, confirmed later, and then updated to 'failed': both stamps are still
\* there.
C10_Witness ==
    /\ arg.called
    /\ arg.new_status = <<"F", "a", "i", "l", "e", "d">>
    /\ telecommand.status = <<"f", "a", "i", "l", "e", "d">>
    /\ telecommand.sent_at # NULL
    /\ telecommand.confirmed_at > telecommand.sent_at

\* C11: when update_status('confirmed') is called on a telecommand that an
\* earlier update_status('sent') stamped, then right after the call
\* confirmed_at >= sent_at (the clock never runs backwards).
C11_ConfirmedNotBeforeSent ==
    [][ (arg'.called /\ telecommand'.status = Confirmed /\ telecommand.sent_at # NULL)
          => telecommand'.confirmed_at >= telecommand'.sent_at ]_vars

\* Sent, and confirmed at a later reading of the clock.
C11_Witness ==
    /\ arg.called
    /\ lower(arg.new_status) = Confirmed
    /\ telecommand.sent_at # NULL
    /\ telecommand.confirmed_at > telecommand.sent_at

(***************************************************************************)
(* The telecommand routes (specification SpecRoutes): create_telecommand   *)
(* and update_telecommand of the web blueprint, and the insert of a        *)
(* Telecommand through the ORM, on a store seeded with a satellite and the *)
(* Admin operator.  The specification follows one telecommand.             *)
(***************************************************************************)

Digits == <<"0", "1", "2", "3", "4", "5", "6", "7", "8", "9">>

IsDigit(c) == \E k \in DOMAIN Digits : Digits[k] = c

DigitValue(c) == (CHOOSE k \in DOMAIN Digits : Digits[k] = c) - 1

\* The digits of an int() argument, without its sign.
Unsigned(str) == IF str # <<>> /\ str[1] \in {"-", "+"} THEN Tail(str) ELSE str

\* int(str) raises ValueError unless str is an optional sign and digits.
IsIntLiteral(str) ==
    /\ Unsigned(str) # <<>>
    /\ \A i \in DOMAIN Unsigned(str) : IsDigit(Unsigned(str)[i])

RECURSIVE NatOf(_)
NatOf(ds) ==
    IF ds = <<>> THEN 0
    ELSE 10 * NatOf(SubSeq(ds, 1, Len(ds) - 1)) + DigitValue(ds[Len(ds)])

\* int(str) of a string that is an integer literal.
int(str) == IF str[1] = "-" THEN 0 - NatOf(Unsigned(str)) ELSE NatOf(Unsigned(str))

\* The values callers send for satellite_id and operator_id (9: no such row),
\* and for priority.
IdInputs == {<<"1">>, <<"9">>}
OperatorIdInputs == {<<"1">>, <<"9">>}
PriorityInputs == {<<"0">>, <<"1">>, <<"1", "0">>, <<"1", "1">>, <<"h", "i", "g", "h">>}

\* The parameters field of the form: empty, a JSON object, or no JSON.
ParameterInputs == {"", "{\"p1\": 1}", "{p1: "}

\* json.loads of these texts: the value, or JSONDecodeError.
json_loads(text) ==
    IF text = "{\"p1\": 1}" THEN [ok |-> TRUE, value |-> [p1 |-> 1]]
    ELSE [ok |-> FALSE, value |-> <<>>]

\* The statuses callers send to the update route: the five, one not in lower
\* case, and one that is no status.
StatusInputs ==
    { Pending, Queued, Sent, Confirmed, Failed, <<"S", "E", "N", "T">>,
      <<"s", "e", "n", "d">> }

\* SpecRoutes follows the first telecommand of the table.
RouteTelecommandIds == {1}

\* The form of a create request.
CreateForms ==
    [satellite_id : IdInputs, operator_id : OperatorIdInputs,
     priority : PriorityInputs, parameters : ParameterInputs]

\* The JSON body of an update request: nothing, one of status, priority,
\* satellite_id and operator_id, or a status together with a priority.
UpdateData ==
    {<<>>}
    \cup [status : StatusInputs] \cup [priority : PriorityInputs]
    \cup [satellite_id : IdInputs]
    \cup [operator_id : {<<"9">>}]
    \cup [status : {Sent, <<"S", "E", "N", "T">>, <<"s", "e", "n", "d">>},
          priority : {<<"1">>, <<"1", "1">>}]

create_telecommand_DefaultPriority(d, form, clock) ==
    IF form.parameters # "" /\ ~json_loads(form.parameters).ok
    THEN [db |-> d, result |-> "invalid_json"]
    ELSE IF ~(/\ IsIntLiteral(form.satellite_id)
              /\ IsIntLiteral(form.operator_id)
              /\ IsIntLiteral(form.priority))
    THEN [db |-> d, result |-> "error"]
    ELSE LET params == IF form.parameters = "" THEN <<>>
                       ELSE json_loads(form.parameters).value
             new_tc == Telecommand(int(form.satellite_id), int(form.operator_id),
                                   params, Pending, 5)
             id == NewId(TelecommandIds, d.telecommands)
             t == Transaction(d, <<[d EXCEPT !.telecommands = InsertTelecommandRow(@, id, new_tc, clock)]>>)
         IN  [db |-> t.db, result |-> IF t.result = "ok" THEN "created" ELSE "error"]

\* create_telecommand: the store afterwards and what the handler flashed.
\* A parameters text that is no JSON returns before anything is built; a
\* value int() rejects, or a commit the storage engine rejects, is caught,
\* rolled back and flashed as an error.
create_telecommand(d, form, clock) ==
    IF form.parameters # "" /\ ~json_loads(form.parameters).ok
    THEN [db |-> d, result |-> "invalid_json"]
    ELSE IF ~(/\ IsIntLiteral(form.satellite_id)
              /\ IsIntLiteral(form.operator_id)
              /\ IsIntLiteral(form.priority))
    THEN [db |-> d, result |-> "error"]
    ELSE LET params == IF form.parameters = "" THEN <<>>
                       ELSE json_loads(form.parameters).value
             new_tc == Telecommand(int(form.satellite_id), int(form.operator_id),
                                   params, Pending, int(form.priority))
             id == NewId(TelecommandIds, d.telecommands)
             t == Transaction(d, <<[d EXCEPT !.telecommands = InsertTelecommandRow(@, id, new_tc, clock)]>>)
         IN  [db |-> t.db, result |-> IF t.result = "ok" THEN "created" ELSE "error"]

ApplyUpdate_TouchesCreatedAt(tc, data, clock) ==
    LET t0 == [tc EXCEPT !.created_at = clock]
        t1 == IF "parameters" \in DOMAIN data
              THEN [t0 EXCEPT !.parameters = data.parameters] ELSE t0
        t2 == IF "satellite_id" \in DOMAIN data
              THEN [t1 EXCEPT !.satellite_id = int(data.satellite_id)] ELSE t1
        t3 == IF "command_type" \in DOMAIN data
              THEN [t2 EXCEPT !.command_type = data.command_type] ELSE t2
        t4 == IF "priority" \in DOMAIN data
              THEN [t3 EXCEPT !.priority = int(data.priority)] ELSE t3
    IN  IF "status" \in DOMAIN data
        THEN update_status(t4, data.status, "None", clock) ELSE t4

\* The attribute assignments of update_telecommand on the loaded row.
ApplyUpdate(tc, data, clock) ==
    LET t1 == IF "parameters" \in DOMAIN data
              THEN [tc EXCEPT !.parameters = data.parameters] ELSE tc
        t2 == IF "satellite_id" \in DOMAIN data
              THEN [t1 EXCEPT !.satellite_id = int(data.satellite_id)] ELSE t1
        t3 == IF "command_type" \in DOMAIN data
              THEN [t2 EXCEPT !.command_type = data.command_type] ELSE t2
        t4 == IF "priority" \in DOMAIN data
              THEN [t3 EXCEPT !.priority = int(data.priority)] ELSE t3
    IN  IF "status" \in DOMAIN data
        THEN update_status(t4, data.status, "None", clock) ELSE t4

update_telecommand_BodyFirst(d, tc_id, data, clock) ==
    IF data = <<>> THEN [db |-> d, code |-> 400]
    ELSE IF \/ "satellite_id" \in DOMAIN data /\ ~IsIntLiteral(data.satellite_id)
            \/ "priority" \in DOMAIN data /\ ~IsIntLiteral(data.priority)
    THEN [db |-> d, code |-> 500]
    ELSE IF tc_id \notin DOMAIN d.telecommands THEN [db |-> d, code |-> 404]
    ELSE LET tc == ApplyUpdate(d.telecommands[tc_id], data, clock)
             t == Transaction(d, <<[d EXCEPT !.telecommands[tc_id] = tc]>>)
         IN  [db |-> t.db, code |-> IF t.result = "ok" THEN 200 ELSE 500]

update_telecommand_KeepsStatus(d, tc_id, data, clock) ==
    IF tc_id \notin DOMAIN d.telecommands THEN [db |-> d, code |-> 404]
    ELSE IF data = <<>> THEN [db |-> d, code |-> 400]
    ELSE IF \/ "satellite_id" \in DOMAIN data /\ ~IsIntLiteral(data.satellite_id)
            \/ "priority" \in DOMAIN data /\ ~IsIntLiteral(data.priority)
    THEN [db |-> d, code |-> 500]
    ELSE LET tc == ApplyUpdate(d.telecommands[tc_id], data, clock)
             t == Transaction(d, <<[d EXCEPT !.telecommands[tc_id] = tc]>>)
             status_only == [k \in DOMAIN data \cap {"status"} |-> data[k]]
             kept == Transaction(d, <<[d EXCEPT !.telecommands[tc_id] =
                                         ApplyUpdate(@, status_only, clock)]>>)
         IN  IF t.result = "ok" THEN [db |-> t.db, code |-> 200]
             ELSE [db |-> kept.db, code |-> 500]

\* update_telecommand(tc_id) with a JSON body: the store afterwards and the
\* status code of the response.
update_telecommand(d, tc_id, data, clock) ==
    IF tc_id \notin DOMAIN d.telecommands THEN [db |-> d, code |-> 404]
    ELSE IF data = <<>> THEN [db |-> d, code |-> 400]
    ELSE IF \/ "satellite_id" \in DOMAIN data /\ ~IsIntLiteral(data.satellite_id)
            \/ "priority" \in DOMAIN data /\ ~IsIntLiteral(data.priority)
    THEN [db |-> d, code |-> 500]
    ELSE LET tc == ApplyUpdate(d.telecommands[tc_id], data, clock)
             t == Transaction(d, <<[d EXCEPT !.telecommands[tc_id] = tc]>>)
         IN  [db |-> t.db, code |-> IF t.result = "ok" THEN 200 ELSE 500]

CreateTelecommand ==
    /\ TelecommandIds \ DOMAIN db.telecommands # {}
    /\ NewId(TelecommandIds, db.telecommands) \in RouteTelecommandIds
    /\ \E form \in CreateForms :
        LET r == create_telecommand(db, form, now) IN
        /\ db' = r.db
        /\ req' = [op |-> "create_telecommand", result |-> r.result]
    /\ UNCHANGED <<last, managerVars, lifecycleVars, objectVars, handler>>

UpdateTelecommand ==
    /\ \E tc_id \in TelecommandIds, data \in UpdateData :
        LET r == update_telecommand(db, tc_id, data, now) IN
        /\ db' = r.db
        /\ req' = [op |-> "update_telecommand", result |-> r.code,
                   status |-> IF "status" \in DOMAIN data THEN data.status ELSE <<>>]
    /\ UNCHANGED <<last, managerVars, lifecycleVars, objectVars, handler>>

\* delete_telecommand(tc_id): session.get loads the telecommand only, its
\* logs are left to the storage engine (passive_deletes).
delete_telecommand(d, tc_id) ==
    IF tc_id \notin DOMAIN d.telecommands THEN [db |-> d, result |-> "not_found"]
    ELSE LET t == OrmDeleteTelecommand(d, tc_id, FALSE)
         IN  [db |-> t.db, result |-> IF t.result = "ok" THEN "deleted" ELSE "error"]

DeleteTelecommandRoute ==
    /\ \E tc_id \in TelecommandIds :
        LET r == delete_telecommand(db, tc_id) IN
        /\ db' = r.db
        /\ req' = [op |-> "delete_telecommand", result |-> r.result]
    /\ UNCHANGED <<last, managerVars, lifecycleVars, objectVars, handler>>

\* Time passes between two requests.
ClockTick ==
    /\ now < MaxClock
    /\ now' = now + 1
    /\ UNCHANGED <<storeVars, managerVars, telecommand, arg, req, objectVars, handler>>

\* The store the routes start with: one satellite and the Admin operator
\* (id 1).
SeededDb ==
    [EmptyDb EXCEPT
        !.operators = Put(<<>>, 1, Operator(Username(1), Email(1), "admin", "active")),
        !.satellites = InsertSatelliteRow(<<>>, 1, Satellite(Code(1), "active"), 1)]

InitRoutes ==
    /\ db = SeededDb
    /\ last = [op |-> "none", id |-> NULL, result |-> "ok", removed |-> 0]
    /\ ManagerInit
    /\ LifecycleInit
    /\ req = NoRequest /\ handler = NoHandler
    /\ ObjectInit

\* Telecommand(**kwargs) as the tests build it: satellite and operator (9: no
\* such row), a priority, and a status or none.
ConstructorStatuses ==
    { Queued, <<"S", "E", "N", "T">>,
      <<"i", "n", "v", "a", "l", "i", "d", "_", "s", "t", "a", "t", "u", "s">> }

ConstructorKwargs ==
    [satellite_id : {1, 9}, operator_id : {1, 9}, priority : {0, 5, 11}]
    \cup [satellite_id : {1, 9}, operator_id : {1, 9}, priority : {0, 5, 11},
          status : ConstructorStatuses]

\* session.add(Telecommand(**kwargs)); session.flush(): the constructor keeps
\* the attributes it is given, the INSERT fills status with the column
\* default when none was given.  object_status is the status attribute of the
\* object afterwards (<<>>: None).
add_telecommand(d, kwargs, clock) ==
    LET given == "status" \in DOMAIN kwargs
        row == Telecommand(kwargs.satellite_id, kwargs.operator_id, <<>>,
                           IF given THEN kwargs.status ELSE Pending,
                           kwargs.priority)
        id == NewId(TelecommandIds, d.telecommands)
        t == Transaction(d, <<[d EXCEPT !.telecommands = InsertTelecommandRow(@, id, row, clock)]>>)
    IN  [db |-> t.db, result |-> t.result,
         object_status |-> IF given THEN kwargs.status
                           ELSE IF t.result = "ok" THEN row.status ELSE <<>>]

AddTelecommand ==
    /\ TelecommandIds \ DOMAIN db.telecommands # {}
    /\ NewId(TelecommandIds, db.telecommands) \in RouteTelecommandIds
    /\ \E kwargs \in ConstructorKwargs :
        LET r == add_telecommand(db, kwargs, now) IN
        /\ db' = r.db
        /\ req' = [op |-> "add_telecommand", result |-> r.result,
                   kwargs |-> kwargs, object_status |-> r.object_status]
    /\ UNCHANGED <<last, managerVars, lifecycleVars, objectVars, handler>>

NextRoutes ==
    \/ CreateTelecommand
    \/ UpdateTelecommand
    \/ DeleteTelecommandRoute
    \/ AddTelecommand
    \/ ClockTick

SpecRoutes == InitRoutes /\ [][NextRoutes]_vars

(***************************************************************************)
(* Status, priority and creation through the routes (SpecRoutes).          *)
(***************************************************************************)

\* C12: update_status takes any string and stores it, lower-cased, without
\* raising; when that is none of the five statuses the commit of the update
\* route fails, the response is the error (500) and the store, and so the
\* telecommand's status, message and timestamps, is as before the request.
C12_InvalidStatusRolledBack ==
    \A tc_id \in DOMAIN db.telecommands, data \in UpdateData :
        "status" \in DOMAIN data =>
            /\ update_status(db.telecommands[tc_id], data.status, "None", now).status
                  = lower(data.status)
            /\ lower(data.status) \notin {Pending, Queued, Sent, Confirmed, Failed}
                  => /\ update_telecommand(db, tc_id, data, now).code = 500
                     /\ update_telecommand(db, tc_id, data, now).db = db

\* A sent telecommand after an update request with a value that is no status.
C12_Witness ==
    /\ req.op = "update_telecommand" /\ req.result = 500
    /\ req.status = <<"s", "e", "n", "d">>
    /\ 1 \in DOMAIN db.telecommands
    /\ db.telecommands[1].status = Sent
    /\ db.telecommands[1].sent_at # NULL

\* C13, as stated: the status of a telecommand is lower case in every
\* reachable state, the stored rows and the Telecommand object a caller built
\* with a status alike.
C13_StatusAlwaysLowerCase ==
    /\ \A t \in DOMAIN db.telecommands :
          db.telecommands[t].status = lower(db.telecommands[t].status)
    /\ req.op = "add_telecommand" => req.object_status = lower(req.object_status)

\* C13, amended: the status of every stored telecommand is lower case.
\* update_status stores the lower-cased value ('SENT' through the update
\* route is stored as 'sent' and stamps sent_at) and the create route writes
\* 'pending'; the constructor keeps the status it is given as it is, and an
\* insert with a status that is not lower case is rejected and stores nothing.
C13_StoredStatusLowerCase ==
    /\ \A t \in DOMAIN db.telecommands :
          db.telecommands[t].status = lower(db.telecommands[t].status)
    /\ \A t \in DOMAIN db.telecommands :
          LET r == update_telecommand(db, t, [status |-> <<"S", "E", "N", "T">>], now)
          IN  /\ r.code = 200
              /\ r.db.telecommands[t].status = Sent
              /\ r.db.telecommands[t].sent_at = now
    /\ TelecommandIds \ DOMAIN db.telecommands # {} =>
          \A kwargs \in ConstructorKwargs :
              ("status" \in DOMAIN kwargs /\ kwargs.status # lower(kwargs.status))
                  => /\ add_telecommand(db, kwargs, now).object_status = kwargs.status
                     /\ add_telecommand(db, kwargs, now).result = "IntegrityError"
                     /\ add_telecommand(db, kwargs, now).db = db

\* 'SENT' went through the update route and is stored as 'sent'.
C13_Witness ==
    /\ req.op = "update_telecommand" /\ req.result = 200
    /\ req.status = <<"S", "E", "N", "T">>
    /\ 1 \in DOMAIN db.telecommands
    /\ db.telecommands[1].status = Sent
    /\ db.telecommands[1].sent_at = now

(***************************************************************************)
(* Repeated and backward status updates (SpecLifecycle).                   *)
(***************************************************************************)

\* C14: update_status with the status the telecommand already has is no
\* no-op: 'sent' on a telecommand already 'sent' overwrites sent_at with the
\* time of the new call, 'confirmed' on one already 'confirmed' overwrites
\* confirmed_at, and the status and the other timestamp stay as they were.
C14_RestampsReachedStatus ==
    [][ (arg'.called /\ lower(arg'.new_status) = telecommand.status) =>
          /\ telecommand'.status = telecommand.status
          /\ telecommand.status = Sent =>
                /\ telecommand'.sent_at = now
                /\ telecommand'.confirmed_at = telecommand.confirmed_at
          /\ telecommand.status = Confirmed =>
                /\ telecommand'.confirmed_at = now
                /\ telecommand'.sent_at = telecommand.sent_at ]_vars

\* A telecommand sent at one time and sent again at a later one.
C14_Witness ==
    /\ arg.called
    /\ lower(arg.new_status) = Sent
    /\ arg.before.status = Sent
    /\ arg.before.sent_at # NULL
    /\ telecommand.sent_at > arg.before.sent_at

(***************************************************************************)
(* Transitions, priority and creation through the routes (SpecRoutes).     *)
(***************************************************************************)

\* C15: the lifecycle is no transition graph.  Whatever status a stored
\* telecommand has, update_status moves it to each of the five statuses, and
\* the update route commits the move (200): backwards too, and to 'failed'
\* from every status.
C15_AnyTransitionAccepted ==
    \A t \in DOMAIN db.telecommands :
    \A to \in {Pending, Queued, Sent, Confirmed, Failed} :
        /\ update_status(db.telecommands[t], to, "None", now).status = to
        /\ update_telecommand(db, t, [status |-> to], now).code = 200
        /\ update_telecommand(db, t, [status |-> to], now).db.telecommands[t].status = to

\* A telecommand that was confirmed and is pending again.
C15_Witness ==
    /\ req.op = "update_telecommand" /\ req.result = 200
    /\ req.status = Pending
    /\ 1 \in DOMAIN db.telecommands
    /\ db.telecommands[1].status = Pending
    /\ db.telecommands[1].confirmed_at # NULL

\* C16: every stored telecommand has a priority in [1,10].  An insert (through
\* the ORM or the create route) or an update (through the update route) with
\* 0, 11 or another integer outside the range is rejected - IntegrityError,
\* an error flashed, 500 - and leaves the store as it was.
C16_PriorityInRange ==
    /\ \A t \in DOMAIN db.telecommands :
          db.telecommands[t].priority \in 1..10
    /\ \A t \in DOMAIN db.telecommands, data \in UpdateData :
          (/\ "priority" \in DOMAIN data
           /\ IsIntLiteral(data.priority)
           /\ int(data.priority) \notin 1..10)
              => /\ update_telecommand(db, t, data, now).code = 500
                 /\ update_telecommand(db, t, data, now).db = db
    /\ TelecommandIds \ DOMAIN db.telecommands # {} =>
          /\ \A form \in CreateForms :
                (IsIntLiteral(form.priority) /\ int(form.priority) \notin 1..10)
                    => /\ create_telecommand(db, form, now).result # "created"
                       /\ create_telecommand(db, form, now).db = db
          /\ \A kwargs \in ConstructorKwargs :
                kwargs.priority \notin 1..10
                    => /\ add_telecommand(db, kwargs, now).result = "IntegrityError"
                       /\ add_telecommand(db, kwargs, now).db = db

\* An insert with priority 11, of an existing satellite and operator, failed.
C16_Witness ==
    /\ req.op = "add_telecommand" /\ req.result = "IntegrityError"
    /\ req.kwargs = [satellite_id |-> 1, operator_id |-> 1, priority |-> 11]
    /\ db = SeededDb

\* C19: a telecommand the create route persists, or one inserted without a
\* status, has status 'pending' and no sent_at or confirmed_at right after
\* its creation, and carries the satellite, operator, parameters and priority
\* the caller supplied; the rest of the store is as before.
C19_CreatedPending ==
    TelecommandIds \ DOMAIN db.telecommands # {} =>
        LET id == NewId(TelecommandIds, db.telecommands) IN
        /\ \A form \in CreateForms :
              LET r == create_telecommand(db, form, now) IN
              r.result = "created" =>
                  /\ r.db = [db EXCEPT !.telecommands = Put(@, id, r.db.telecommands[id])]
                  /\ r.db.telecommands[id].status = Pending
                  /\ r.db.telecommands[id].sent_at = NULL
                  /\ r.db.telecommands[id].confirmed_at = NULL
                  /\ r.db.telecommands[id].satellite_id = int(form.satellite_id)
                  /\ r.db.telecommands[id].operator_id = int(form.operator_id)
                  /\ r.db.telecommands[id].priority = int(form.priority)
                  /\ r.db.telecommands[id].parameters =
                        IF form.parameters = "" THEN <<>>
                        ELSE json_loads(form.parameters).value
        /\ \A kwargs \in ConstructorKwargs :
              LET r == add_telecommand(db, kwargs, now) IN
              (r.result = "ok" /\ "status" \notin DOMAIN kwargs) =>
                  /\ r.db = [db EXCEPT !.telecommands = Put(@, id, r.db.telecommands[id])]
                  /\ r.object_status = Pending
                  /\ r.db.telecommands[id].status = Pending
                  /\ r.db.telecommands[id].sent_at = NULL
                  /\ r.db.telecommands[id].confirmed_at = NULL
                  /\ r.db.telecommands[id].satellite_id = kwargs.satellite_id
                  /\ r.db.telecommands[id].operator_id = kwargs.operator_id
                  /\ r.db.telecommands[id].priority = kwargs.priority

\* The create route has just persisted a telecommand with priority 10 and
\* parameters {"p1": 1}.
C19_Witness ==
    /\ req.op = "create_telecommand" /\ req.result = "created"
    /\ 1 \in DOMAIN db.telecommands
    /\ db.telecommands[1].priority = 10
    /\ db.telecommands[1].parameters = [p1 |-> 1]
    /\ db.telecommands[1].status = Pending
    /\ db.telecommands[1].sent_at = NULL

(***************************************************************************)
(* Operators and satellites written through a session (SpecRecords):       *)
(* session.add of a new Operator or Satellite and attribute updates, each  *)
(* followed by flush; a failed flush is rolled back.                       *)
(***************************************************************************)
Usernames == {Username(1), Username(2)}
Emails == {Email(1), Email(2)}
Codes == {Code(1), Code(2)}

\* Two allowed values and one that is not, per column.
RoleInputs == {"operator", "admin", "super_hacker"}
OperatorStatusInputs == {"active", "suspended", "deleted"}
SatelliteStatusInputs == {"active", "maintenance", "invalid_status"}

OperatorKwargs ==
    [username : Usernames, email : Emails, role : RoleInputs,
     status : OperatorStatusInputs]

SatelliteKwargs == [code : Codes, status : SatelliteStatusInputs]

\* One attribute assignment on a loaded object.
OperatorChanges ==
    [column : {"username"}, value : Usernames]
    \cup [column : {"email"}, value : Emails]
    \cup [column : {"role"}, value : RoleInputs]
    \cup [column : {"status"}, value : OperatorStatusInputs]

SatelliteChanges ==
    [column : {"code"}, value : Codes]
    \cup [column : {"status"}, value : SatelliteStatusInputs]

\* session.add(Operator(**kwargs)); session.flush()
add_operator(d, kwargs) ==
    LET id == NewId(OperatorIds, d.operators)
        row == Operator(kwargs.username, kwargs.email, kwargs.role, kwargs.status)
    IN  Transaction(d, <<[d EXCEPT !.operators = Put(@, id, row)]>>)

\* operator.<column> = value; session.flush()
update_operator(d, id, change) ==
    Transaction(d, <<[d EXCEPT !.operators[id][change.column] = change.value]>>)

\* session.add(Satellite(**kwargs)); session.flush()
add_satellite(d, kwargs, clock) ==
    LET id == NewId(SatelliteIds, d.satellites)
        row == Satellite(kwargs.code, kwargs.status)
    IN  Transaction(d, <<[d EXCEPT !.satellites = InsertSatelliteRow(@, id, row, clock)]>>)

update_satellite_KeepsUpdatedAt(d, id, change, clock) ==
    Transaction(d, <<[d EXCEPT !.satellites[id][change.column] = change.value]>>)

\* satellite.<column> = value; session.flush(): the flush calls the
\* before_update listener for the object, then writes the row.
update_satellite(d, id, change, clock) ==
    Transaction(d, <<[d EXCEPT !.satellites[id] =
                         update_updated_at([@ EXCEPT ![change.column] = change.value],
                                           clock)]>>)

AddOperator ==
    /\ OperatorIds \ DOMAIN db.operators # {}
    /\ \E kwargs \in OperatorKwargs :
        LET r == add_operator(db, kwargs) IN
        /\ db' = r.db
        /\ req' = [op |-> "add_operator", result |-> r.result, kwargs |-> kwargs]
    /\ UNCHANGED <<last, managerVars, lifecycleVars, objectVars, handler>>

UpdateOperator ==
    /\ \E id \in DOMAIN db.operators, change \in OperatorChanges :
        LET r == update_operator(db, id, change) IN
        /\ db' = r.db
        /\ req' = [op |-> "update_operator", result |-> r.result, id |-> id,
                   change |-> change]
    /\ UNCHANGED <<last, managerVars, lifecycleVars, objectVars, handler>>

AddSatellite ==
    /\ SatelliteIds \ DOMAIN db.satellites # {}
    /\ \E kwargs \in SatelliteKwargs :
        LET r == add_satellite(db, kwargs, now) IN
        /\ db' = r.db
        /\ req' = [op |-> "add_satellite", result |-> r.result, kwargs |-> kwargs]
    /\ UNCHANGED <<last, managerVars, lifecycleVars, objectVars, handler>>

UpdateSatellite ==
    /\ \E id \in DOMAIN db.satellites, change \in SatelliteChanges :
        LET r == update_satellite(db, id, change, now) IN
        /\ db' = r.db
        /\ req' = [op |-> "update_satellite", result |-> r.result, id |-> id,
                   change |-> change]
    /\ UNCHANGED <<last, managerVars, lifecycleVars, objectVars, handler>>

NextRecords ==
    \/ AddOperator
    \/ UpdateOperator
    \/ AddSatellite
    \/ UpdateSatellite

SpecRecords == Init /\ [][NextRecords]_vars

(***************************************************************************)
(* Enumerated and unique columns (SpecRecords).                            *)
(***************************************************************************)
\* C17: every stored operator has a role among admin, operator, viewer and a
\* status among active, inactive, suspended, every stored satellite a status
\* among active, inactive, maintenance, and a telecommand is stored only
\* with one of the five telecommand statuses; an insert or update that gives
\* one of these columns another value fails with an integrity violation and
\* leaves the store as it was.
C17_EnumeratedColumns ==
    /\ \A o \in DOMAIN db.operators :
          /\ db.operators[o].role \in {"admin", "operator", "viewer"}
          /\ db.operators[o].status \in {"active", "inactive", "suspended"}
    /\ \A s \in DOMAIN db.satellites :
          db.satellites[s].status \in {"active", "inactive", "maintenance"}
    /\ OperatorIds \ DOMAIN db.operators # {} =>
          \A kwargs \in OperatorKwargs :
              (\/ kwargs.role \notin {"admin", "operator", "viewer"}
               \/ kwargs.status \notin {"active", "inactive", "suspended"})
                  => add_operator(db, kwargs) = [db |-> db, result |-> "IntegrityError"]
    /\ \A o \in DOMAIN db.operators, change \in OperatorChanges :
          (\/ change.column = "role" /\ change.value \notin {"admin", "operator", "viewer"}
           \/ change.column = "status" /\ change.value \notin {"active", "inactive", "suspended"})
              => update_operator(db, o, change) = [db |-> db, result |-> "IntegrityError"]
    /\ SatelliteIds \ DOMAIN db.satellites # {} =>
          \A kwargs \in SatelliteKwargs :
              kwargs.status \notin {"active", "inactive", "maintenance"}
                  => add_satellite(db, kwargs, now) = [db |-> db, result |-> "IntegrityError"]
    /\ \A s \in DOMAIN db.satellites, change \in SatelliteChanges :
          (change.column = "status" /\ change.value \notin {"active", "inactive", "maintenance"})
              => update_satellite(db, s, change, now) = [db |-> db, result |-> "IntegrityError"]
    /\ TelecommandIds \ DOMAIN db.telecommands # {} =>
          \A kwargs \in ConstructorKwargs :
              LET r == add_telecommand(db, kwargs, now)
                  id == NewId(TelecommandIds, db.telecommands)
              IN  /\ ("status" \in DOMAIN kwargs
                        /\ kwargs.status \notin {Pending, Queued, Sent, Confirmed, Failed})
                        => r.result = "IntegrityError" /\ r.db = db
                  /\ r.result = "ok" =>
                        r.db.telecommands[id].status \in {Pending, Queued, Sent, Confirmed, Failed}

\* An operator with an allowed role is stored, and the update of its role to
\* 'super_hacker' has just failed; the insert of a telecommand for the stored
\* satellite and operator is possible.
C17_Witness ==
    /\ req.op = "update_operator" /\ req.result = "IntegrityError"
    /\ req.change = [column |-> "role", value |-> "super_hacker"]
    /\ req.id \in DOMAIN db.operators
    /\ db.operators[req.id].role = "admin"
    /\ 1 \in DOMAIN db.operators /\ 1 \in DOMAIN db.satellites
    /\ db.satellites[1].status = "maintenance"
    /\ add_telecommand(db, [satellite_id |-> 1, operator_id |-> 1, priority |-> 5,
                            status |-> Queued], now).result = "ok"

\* C18: no two stored operators share a username or an email and no two
\* stored satellites share a code; an insert, or an update of another row,
\* that would repeat one of these values fails with an integrity violation
\* and leaves the stored rows as they were.
C18_UniqueColumns ==
    /\ \A o1, o2 \in DOMAIN db.operators :
          o1 # o2 => /\ db.operators[o1].username # db.operators[o2].username
                     /\ db.operators[o1].email # db.operators[o2].email
    /\ \A s1, s2 \in DOMAIN db.satellites :
          s1 # s2 => db.satellites[s1].code # db.satellites[s2].code
    /\ OperatorIds \ DOMAIN db.operators # {} =>
          \A kwargs \in OperatorKwargs :
              (\E o \in DOMAIN db.operators :
                  \/ db.operators[o].username = kwargs.username
                  \/ db.operators[o].email = kwargs.email)
                  => add_operator(db, kwargs) = [db |-> db, result |-> "IntegrityError"]
    /\ \A o \in DOMAIN db.operators, change \in OperatorChanges :
          (/\ change.column \in {"username", "email"}
           /\ \E other \in DOMAIN db.operators \ {o} :
                  db.operators[other][change.column] = change.value)
              => update_operator(db, o, change) = [db |-> db, result |-> "IntegrityError"]
    /\ SatelliteIds \ DOMAIN db.satellites # {} =>
          \A kwargs \in SatelliteKwargs :
              (\E s \in DOMAIN db.satellites : db.satellites[s].code = kwargs.code)
                  => add_satellite(db, kwargs, now) = [db |-> db, result |-> "IntegrityError"]
    /\ \A s \in DOMAIN db.satellites, change \in SatelliteChanges :
          (/\ change.column = "code"
           /\ \E other \in DOMAIN db.satellites \ {s} :
                  db.satellites[other].code = change.value)
              => update_satellite(db, s, change, now) = [db |-> db, result |-> "IntegrityError"]

\* A second operator with the stored operator's username and an email of its
\* own has just been refused, while two satellites with different codes are
\* stored.
C18_Witness ==
    /\ req.op = "add_operator" /\ req.result = "IntegrityError"
    /\ req.kwargs = [username |-> Username(1), email |-> Email(2),
                     role |-> "operator", status |-> "active"]
    /\ DOMAIN db.operators = {1}
    /\ db.operators[1].username = Username(1)
    /\ db.operators[1].email = Email(1)
    /\ DOMAIN db.satellites = {1, 2}

(***************************************************************************)
(* The password of an Operator object (SpecOperator).                      *)
(***************************************************************************)
\* 'secret', 'secret123' and 'wrong', as the tests use them.
Passwords ==
    { <<"s", "e", "c", "r", "e", "t">>,
      <<"s", "e", "c", "r", "e", "t", "1", "2", "3">>,
      <<"w", "r", "o", "n", "g">> }

\* An operator as a test constructs it, with a password or without.
InitOperator ==
    /\ StoreInit
    /\ ManagerInit
    /\ LifecycleInit
    /\ req = NoRequest /\ handler = NoHandler
    /\ \E attrs \in OperatorAttrs, salt \in Salts,
          password \in {<<>>} \cup {<<p>> : p \in Passwords} :
        /\ operator = new_operator(attrs, password, salt)
        /\ plaintext = password

\* operator.password = password
SetPassword ==
    /\ \E password \in Passwords, salt \in Salts :
        /\ operator' = set_password(operator, password, salt)
        /\ plaintext' = <<password>>
    /\ req' = [op |-> "set_password", result |-> "ok"]
    /\ UNCHANGED <<storeVars, managerVars, lifecycleVars, handler>>

\* operator.password
GetPassword ==
    /\ req' = [op |-> "get_password", result |-> get_password(operator)]
    /\ UNCHANGED <<storeVars, managerVars, lifecycleVars, objectVars, handler>>

\* operator.verify_password(password); without a password hash the call
\* raises inside check_password_hash (None has no string methods).
VerifyPassword ==
    /\ \E password \in Passwords :
        req' = [op |-> "verify_password", password |-> password,
                result |-> IF operator.password_hash = <<>> THEN "AttributeError"
                           ELSE IF verify_password(operator, password) THEN "True"
                           ELSE "False"]
    /\ UNCHANGED <<storeVars, managerVars, lifecycleVars, objectVars, handler>>

\* operator.to_dict(include_sensitive)
ToDict ==
    /\ \E include_sensitive \in BOOLEAN :
        req' = [op |-> "to_dict", include_sensitive |-> include_sensitive,
                result |-> to_dict(operator, include_sensitive)]
    /\ UNCHANGED <<storeVars, managerVars, lifecycleVars, objectVars, handler>>

NextOperator ==
    \/ SetPassword
    \/ GetPassword
    \/ VerifyPassword
    \/ ToDict

SpecOperator == InitOperator /\ [][NextOperator]_vars

\* C20: an Operator that was given a plaintext password does not store or
\* return it: password_hash is not the plaintext, reading password raises
\* AttributeError, to_dict() without include_sensitive has no password_hash
\* and is the same for an operator that differs only in its password, and
\* verify_password is true for the password given and false for every other.
C20_PlaintextNeverKept ==
    plaintext # <<>> =>
        /\ operator.password_hash # plaintext[1]
        /\ operator.password_hash # <<>>
        /\ "password" \notin DOMAIN operator
        /\ get_password(operator) = "AttributeError"
        /\ "password_hash" \notin DOMAIN to_dict(operator, FALSE)
        /\ \A other \in Passwords, salt \in Salts :
              to_dict(set_password(operator, other, salt), FALSE) = to_dict(operator, FALSE)
        /\ \A password \in Passwords :
              verify_password(operator, password) <=> (password = plaintext[1])
        /\ req.op = "get_password" => req.result = "AttributeError"
        /\ (req.op = "to_dict" /\ ~req.include_sensitive) =>
              "password_hash" \notin DOMAIN req.result
        /\ req.op = "verify_password" =>
              req.result = IF req.password = plaintext[1] THEN "True" ELSE "False"

\* Operator(password='secret123').verify_password('wrong') has just
\* answered False.
C20_Witness ==
    /\ plaintext = << <<"s", "e", "c", "r", "e", "t", "1", "2", "3">> >>
    /\ req.op = "verify_password"
    /\ req.password = <<"w", "r", "o", "n", "g">>
    /\ req.result = "False"
    /\ verify_password(operator, plaintext[1])

(***************************************************************************)
(* Satellites written while the clock runs (SpecSatelliteClock).           *)
(***************************************************************************)
NextSatelliteClock ==
    \/ AddSatellite
    \/ UpdateSatellite
    \/ ClockTick

SpecSatelliteClock == Init /\ [][NextSatelliteClock]_vars

UpdateBodies ==
    UpdateData
    \cup [command_type : {"RESET"}, priority : PriorityInputs]
    \cup [status : {Confirmed, <<"s", "e", "n", "d">>}, satellite_id : IdInputs]
    \cup [parameters : {[p1 |-> 1]}, command_type : {"RESET"},
          status : {Sent, <<"s", "e", "n", "d">>}, priority : {<<"1">>, <<"1", "1">>}]
    \cup [parameters : {[p1 |-> 1]}]
    \cup [command_type : {"RESET"}]
    \cup [operator_id : {<<"9">>}, priority : {<<"1">>, <<"1", "1">>}]

\* C23: an update request is all-or-nothing.  When one field of the body
\* violates a constraint (a priority outside 1..10, a satellite that does not
\* exist, a status that is none of the five), the response reports failure
\* and the store is as before the request, whatever the other fields are;
\* every response other than success leaves the store as it was, and a
\* successful request has written every field it carried.
C23_UpdateAllOrNothing ==
    \A t \in DOMAIN db.telecommands, data \in UpdateBodies :
        LET r == update_telecommand(db, t, data, now)
            old == db.telecommands[t]
        IN  /\ (\/ /\ "priority" \in DOMAIN data
                   /\ ~(IsIntLiteral(data.priority) /\ int(data.priority) \in 1..10)
                \/ /\ "satellite_id" \in DOMAIN data
                   /\ ~(/\ IsIntLiteral(data.satellite_id)
                        /\ int(data.satellite_id) \in DOMAIN db.satellites)
                \/ /\ "status" \in DOMAIN data
                   /\ lower(data.status) \notin {Pending, Queued, Sent, Confirmed, Failed})
                  => r.code = 500 /\ r.db = db
            /\ r.code # 200 => r.db = db
            /\ r.code = 200 =>
                  /\ "priority" \in DOMAIN data =>
                        r.db.telecommands[t].priority = int(data.priority)
                  /\ "satellite_id" \in DOMAIN data =>
                        r.db.telecommands[t].satellite_id = int(data.satellite_id)
                  /\ "status" \in DOMAIN data =>
                        r.db.telecommands[t].status = lower(data.status)
                  /\ "parameters" \in DOMAIN data =>
                        r.db.telecommands[t].parameters = data.parameters
                  /\ "command_type" \in DOMAIN data =>
                        r.db.telecommands[t].command_type = data.command_type

\* An update with status 'sent' and a priority outside the range has just
\* been answered with an error; the telecommand is still pending and was
\* never sent.
C23_Witness ==
    /\ req.op = "update_telecommand" /\ req.result = 500
    /\ req.status = Sent
    /\ 1 \in DOMAIN db.telecommands
    /\ db.telecommands[1].status = Pending
    /\ db.telecommands[1].sent_at = NULL
    /\ update_telecommand(db, 1, [status |-> Sent, priority |-> <<"1", "1">>], now).db = db

\* C25: in every committed state a telecommand with status 'sent' has a
\* sent_at and one with status 'confirmed' has a confirmed_at; the routes keep
\* this on every request that succeeds.
C25_StampedWhenSentOrConfirmed ==
    /\ \A t \in DOMAIN db.telecommands :
          /\ db.telecommands[t].status = Sent => db.telecommands[t].sent_at # NULL
          /\ db.telecommands[t].status = Confirmed =>
                db.telecommands[t].confirmed_at # NULL
    /\ \A t \in DOMAIN db.telecommands, data \in UpdateBodies :
          LET r == update_telecommand(db, t, data, now) IN
          /\ r.db.telecommands[t].status = Sent => r.db.telecommands[t].sent_at # NULL
          /\ r.db.telecommands[t].status = Confirmed =>
                r.db.telecommands[t].confirmed_at # NULL

\* A telecommand was set to 'confirmed' through the update route without ever
\* having been sent: it has a confirmed_at and no sent_at.
C25_Witness ==
    /\ req.op = "update_telecommand" /\ req.result = 200 /\ req.status = Confirmed
    /\ 1 \in DOMAIN db.telecommands
    /\ db.telecommands[1].status = Confirmed
    /\ db.telecommands[1].confirmed_at # NULL
    /\ db.telecommands[1].sent_at = NULL

(***************************************************************************)
(* Timestamps and message across update_status calls (SpecLifecycle).      *)
(***************************************************************************)
\* C26: no update_status call resets sent_at or confirmed_at to null or moves
\* it back in time, whatever the new status is; a call that moves the status
\* to pending, queued or failed leaves both timestamps as they were.
C26_TimestampsNeverReset ==
    [][ /\ telecommand.sent_at # NULL =>
              /\ telecommand'.sent_at # NULL
              /\ telecommand'.sent_at >= telecommand.sent_at
        /\ telecommand.confirmed_at # NULL =>
              /\ telecommand'.confirmed_at # NULL
              /\ telecommand'.confirmed_at >= telecommand.confirmed_at
        /\ telecommand'.status \notin {Sent, Confirmed} =>
              /\ telecommand'.sent_at = telecommand.sent_at
              /\ telecommand'.confirmed_at = telecommand.confirmed_at ]_vars

\* A telecommand that was sent and confirmed has just been set back to
\* 'pending' and still carries both timestamps.
C26_Witness ==
    /\ arg.called
    /\ arg.new_status = Pending
    /\ arg.before.status = Confirmed
    /\ arg.before.sent_at # NULL
    /\ telecommand.status = Pending
    /\ telecommand.sent_at = arg.before.sent_at
    /\ telecommand.confirmed_at = arg.before.confirmed_at
    /\ telecommand.confirmed_at # NULL

\* C27: update_status called without a message (message = None) leaves
\* status_message null, whatever message the telecommand carried before; the
\* update route calls update_status with the status only, so a status change
\* through the route leaves status_message null.
C27_MessageDiscarded ==
    /\ arg.called => telecommand.status_message = arg.message
    /\ \A new_status \in NewStatuses :
          /\ update_status(telecommand, new_status, "None", now).status_message = "None"
          /\ ApplyUpdate(telecommand, [status |-> new_status], now).status_message = "None"

\* A telecommand that carried the message 'Sending command' has just been
\* updated without a message and carries none.
C27_Witness ==
    /\ arg.called
    /\ arg.message = "None"
    /\ arg.before.status_message = "Sending command"
    /\ telecommand.status_message = "None"

\* C28: a request that is rejected before any mutation leaves the store as it
\* was: a create whose parameters field is not valid JSON (whatever the other
\* fields are), an update or delete of a telecommand id that does not exist
\* (the update answers 404 whatever the body is), and an update of an
\* existing telecommand with an empty body (400).
C28_RejectedRequestsChangeNothing ==
    /\ \A form \in CreateForms :
          (form.parameters # "" /\ ~json_loads(form.parameters).ok) =>
              create_telecommand(db, form, now) = [db |-> db, result |-> "invalid_json"]
    /\ \A tc_id \in TelecommandIds \ DOMAIN db.telecommands :
          /\ \A data \in UpdateBodies :
                update_telecommand(db, tc_id, data, now) = [db |-> db, code |-> 404]
          /\ delete_telecommand(db, tc_id) = [db |-> db, result |-> "not_found"]
    /\ \A tc_id \in DOMAIN db.telecommands :
          update_telecommand(db, tc_id, <<>>, now) = [db |-> db, code |-> 400]

\* The update of a telecommand id that does not exist has just been answered
\* with 404 while another telecommand is stored.
C28_Witness ==
    /\ req.op = "update_telecommand" /\ req.result = 404
    /\ DOMAIN db.telecommands = {1}
    /\ update_telecommand(db, 2, <<>>, now).code = 404
    /\ update_telecommand(db, 1, <<>>, now).code = 400

\* C29: whatever the body of an update request carries, the update route
\* leaves the telecommand's id, operator_id, created_at and metadata, the
\* other telecommands and the other tables as they were (an 'operator_id' key
\* is ignored); a field that changes is one of parameters, satellite_id,
\* command_type, priority, status, status_message, sent_at and confirmed_at.
C29_UpdateFrame ==
    \A t \in DOMAIN db.telecommands, data \in UpdateBodies :
        LET r == update_telecommand(db, t, data, now)
            new == r.db.telecommands[t]
            old == db.telecommands[t]
        IN  /\ DOMAIN r.db.telecommands = DOMAIN db.telecommands
            /\ new.operator_id = old.operator_id
            /\ new.created_at = old.created_at
            /\ new.metadata_ = old.metadata_
            /\ \A other \in DOMAIN db.telecommands \ {t} :
                  r.db.telecommands[other] = db.telecommands[other]
            /\ r.db.operators = db.operators
            /\ r.db.satellites = db.satellites
            /\ r.db.execution_logs = db.execution_logs
            /\ \A column \in DOMAIN old :
                  new[column] # old[column] =>
                      column \in {"parameters", "satellite_id", "command_type",
                                  "priority", "status", "status_message",
                                  "sent_at", "confirmed_at"}

\* A telecommand created earlier has just been set to 'sent' through the
\* route and keeps its operator and created_at; an update whose body carries
\* only 'operator_id': 9 succeeds on it and changes nothing.
C29_Witness ==
    /\ req.op = "update_telecommand" /\ req.result = 200 /\ req.status = Sent
    /\ 1 \in DOMAIN db.telecommands
    /\ db.telecommands[1].operator_id = 1
    /\ db.telecommands[1].created_at < now
    /\ db.telecommands[1].sent_at = now
    /\ update_telecommand(db, 1, [operator_id |-> <<"9">>], now) = [db |-> db, code |-> 200]

(***************************************************************************)
(* Execution logs written while the clock runs (SpecLogs).                 *)
(***************************************************************************)
NextLogs ==
    \/ InsertOperator
    \/ InsertSatellite
    \/ InsertTelecommand
    \/ InsertLog
    \/ ClockTick

SpecLogs == Init /\ [][NextLogs]_vars

\* C24: an execution log created without created_at carries the time of its
\* own creation: the insert of a log stores the clock reading of that moment,
\* of two stored logs the one created later has no earlier created_at, and no
\* log has a created_at earlier than the created_at of its telecommand.
C24_LogCreatedAtIsCreationTime ==
    /\ [](\A l \in DOMAIN db.execution_logs :
            /\ db.execution_logs[l].created_at >=
                  db.telecommands[db.execution_logs[l].telecommand_id].created_at
            /\ \A k \in DOMAIN db.execution_logs :
                  k < l => db.execution_logs[k].created_at <= db.execution_logs[l].created_at)
    /\ [][\A l \in DOMAIN db'.execution_logs \ DOMAIN db.execution_logs :
              db'.execution_logs[l].created_at = now]_vars

(***************************************************************************)
(* The dashboard (SpecDashboard): index() over a table of telecommands.    *)
(***************************************************************************)
\* The largest table the dashboard is rendered over.
MaxDashboardRows == 12

\* .limit(10)
DashboardLimit == 10

\* The statuses a table is filled with: the five, and one the valid_status
\* check refuses.
DashboardStatuses == <<Pending, Queued, Sent, Confirmed, Failed, <<"S", "E", "N", "T">> >>

\* A table of n telecommands of satellite 1 and operator 1.  Row i has the
\* status at position i * step + first of DashboardStatuses (step 0: one
\* status for all rows) and was created at time i * stride (modulo 5); a row
\* with status 'sent' was sent at its creation, or has no sent_at when it was
\* inserted with that status.
DashboardRow(i, step, first, stride, stamped) ==
    LET status == DashboardStatuses[((i * step + first) % Len(DashboardStatuses)) + 1]
        at == ((i * stride) % 5) + 1
    IN  [Telecommand(1, 1, <<>>, status, 5) EXCEPT
            !.created_at = at,
            !.sent_at = IF status = Sent /\ stamped THEN at ELSE NULL,
            !.confirmed_at = IF status = Confirmed THEN at ELSE NULL]

DashboardTable(n, step, first, stride, stamped) ==
    [SeededDb EXCEPT !.telecommands =
        [i \in 1..n |-> DashboardRow(i, step, first, stride, stamped)]]

\* desc(column): a row comes before another when its value is greater; NULL
\* sorts first or last, as the database has it; rows with equal values come
\* in an order the database chooses (by ascending or by descending id here).
Precedes(rows, a, b, column, nulls_first, tie) ==
    LET va == rows[a][column]
        vb == rows[b][column]
    IN  IF va = vb THEN (IF tie = "asc" THEN a < b ELSE a > b)
        ELSE IF va = NULL THEN nulls_first
        ELSE IF vb = NULL THEN ~nulls_first
        ELSE va > vb

RECURSIVE order_by_desc(_, _, _, _, _)
order_by_desc(rows, ids, column, nulls_first, tie) ==
    IF ids = {} THEN <<>>
    ELSE LET head == CHOOSE x \in ids :
                        \A y \in ids \ {x} : Precedes(rows, x, y, column, nulls_first, tie)
         IN  <<head>> \o order_by_desc(rows, ids \ {head}, column, nulls_first, tie)

limit_Unlimited(seq, n) == seq

\* .limit(n)
limit(seq, n) == SubSeq(seq, 1, IF Len(seq) < n THEN Len(seq) ELSE n)

\* query(Telecommand).filter(status in statuses)
filter_status(rows, statuses) == {t \in DOMAIN rows : rows[t].status \in statuses}

\* index(): the lists handed to the template.
index(d, nulls_first, tie) ==
    [pending_tcs |->
        limit(order_by_desc(d.telecommands, filter_status(d.telecommands, {Pending, Queued}),
                            "created_at", nulls_first, tie), DashboardLimit),
     sent_tcs |->
        limit(order_by_desc(d.telecommands, filter_status(d.telecommands, {Sent}),
                            "sent_at", nulls_first, tie), DashboardLimit),
     history_tcs |->
        limit(order_by_desc(d.telecommands, filter_status(d.telecommands, {Confirmed, Failed}),
                            "created_at", nulls_first, tie), DashboardLimit),
     satellites |-> {s \in DOMAIN d.satellites : d.satellites[s].status = "active"},
     operators |-> {o \in DOMAIN d.operators : d.operators[o].status = "active"}]

\* The tables the store accepts.
InitDashboard ==
    /\ \E n \in 0..MaxDashboardRows, step \in 0..1,
          first \in 0..(Len(DashboardStatuses) - 1), stride \in {1, 2},
          stamped \in BOOLEAN :
        /\ db = DashboardTable(n, step, first, stride, stamped)
        /\ ConstraintsOk(db)
    /\ last = [op |-> "none", id |-> NULL, result |-> "ok", removed |-> 0]
    /\ ManagerInit
    /\ LifecycleInit
    /\ req = NoRequest /\ handler = NoHandler
    /\ ObjectInit

\* GET /
Index ==
    /\ \E nulls_first \in BOOLEAN, tie \in {"asc", "desc"} :
        req' = [op |-> "index", result |-> index(db, nulls_first, tie)]
    /\ UNCHANGED <<storeVars, managerVars, lifecycleVars, objectVars, handler>>

NextDashboard == Index

SpecDashboard == InitDashboard /\ [][NextDashboard]_vars

\* The ids a rendered list holds.
Shown(list) == {list[i] : i \in DOMAIN list}

\* A rendered list of the telecommands with one of `statuses`, ordered by
\* `column`: at most DashboardLimit rows, each once and each of the group, all
\* of the group when it has no more than DashboardLimit, in descending order,
\* and no row left out is more recent than a row shown (rows that have no
\* value in the column are not compared).
MostRecentOf(list, rows, statuses, column) ==
    LET group == {t \in DOMAIN rows : rows[t].status \in statuses} IN
    /\ Len(list) <= DashboardLimit
    /\ Cardinality(Shown(list)) = Len(list)
    /\ Shown(list) \subseteq group
    /\ Len(list) = IF Cardinality(group) < DashboardLimit
                   THEN Cardinality(group) ELSE DashboardLimit
    /\ \A i, j \in DOMAIN list :
          (i < j /\ rows[list[i]][column] # NULL /\ rows[list[j]][column] # NULL)
              => rows[list[i]][column] >= rows[list[j]][column]
    /\ \A x \in Shown(list), y \in group \ Shown(list) :
          (rows[x][column] # NULL /\ rows[y][column] # NULL)
              => rows[y][column] <= rows[x][column]

\* C30: every stored telecommand belongs to exactly one of the three groups
\* of the dashboard (pending or queued; sent; confirmed or failed); each
\* rendered group holds at most 10 telecommands of that group, the most
\* recent ones by created_at (by sent_at for the sent group); and rendering
\* the dashboard changes no data.
C30_DashboardGroups ==
    /\ [](/\ \A t \in DOMAIN db.telecommands :
                Cardinality({g \in {{Pending, Queued}, {Sent}, {Confirmed, Failed}} :
                                db.telecommands[t].status \in g}) = 1
          /\ \A nulls_first \in BOOLEAN, tie \in {"asc", "desc"} :
                LET r == index(db, nulls_first, tie) IN
                /\ MostRecentOf(r.pending_tcs, db.telecommands, {Pending, Queued}, "created_at")
                /\ MostRecentOf(r.sent_tcs, db.telecommands, {Sent}, "sent_at")
                /\ MostRecentOf(r.history_tcs, db.telecommands, {Confirmed, Failed}, "created_at")
                /\ Shown(r.pending_tcs) \cup Shown(r.sent_tcs) \cup Shown(r.history_tcs)
                      \subseteq DOMAIN db.telecommands
          /\ req.op = "index" =>
                \E nulls_first \in BOOLEAN, tie \in {"asc", "desc"} :
                    req.result = index(db, nulls_first, tie))
    /\ [][db' = db]_vars

\* The dashboard has just been rendered over twelve pending telecommands: ten
\* are shown, the two left out are no more recent than any shown.
C30_Witness ==
    /\ req.op = "index"
    /\ Cardinality(DOMAIN db.telecommands) = 12
    /\ \A t \in DOMAIN db.telecommands : db.telecommands[t].status = Pending
    /\ Len(req.result.pending_tcs) = 10
    /\ req.result.sent_tcs = <<>>
    /\ \E x \in Shown(req.result.pending_tcs), y \in DOMAIN db.telecommands :
          /\ y \notin Shown(req.result.pending_tcs)
          /\ db.telecommands[y].created_at < db.telecommands[x].created_at

(***************************************************************************)
(* The route handlers step by step (specification SpecRequests): the       *)
(* session each request obtains, the try body, the except clause and the   *)
(* finally clause, and the session calls made on the way.                  *)
(***************************************************************************)

Routes == {"index", "create_telecommand", "update_telecommand", "delete_telecommand"}

\* The routes whose try statement has an except clause; index has try/finally
\* only.
RoutesWithExcept == {"create_telecommand", "update_telecommand", "delete_telecommand"}

\* session.commit() returned.
session_commit(h) == [h EXCEPT !.calls = Append(@, "commit")]

\* session.rollback() in an except clause.
session_rollback(h) == [h EXCEPT !.calls = Append(@, "rollback")]

\* session.close() in a finally clause.
session_close(h) == [h EXCEPT !.calls = Append(@, "close"), !.session = "closed"]

\* Where control goes when the try body ends: to the finally clause when it
\* returned or fell through, to the except clause when it raised and the
\* handler has one, and otherwise to the finally clause with the exception
\* still in flight.
leave_try(h, path) ==
    [h EXCEPT !.path = path,
              !.pc = IF path = "exception" /\ h.route \in RoutesWithExcept
                     THEN "except" ELSE "finally"]

\* create_app: DatabaseManager.init_db('postgresql') runs before the blueprint
\* with the routes is registered, so every request finds a configuration.
InitRequests ==
    /\ db = SeededDb
    /\ last = [op |-> "none", id |-> NULL, result |-> "ok", removed |-> 0]
    /\ LET r == create_session(NewConfig("postgresql"), "MainThread", 0)
       IN  /\ configs = <<r.cfg>>
           /\ engines = r.engines
    /\ _instance = FALSE
    /\ _db_config = 1
    /\ held = [u \in Units |-> <<>>]
    /\ call = [op |-> "init_db", result |-> "session"]
    /\ LifecycleInit
    /\ req = NoRequest /\ handler = NoHandler
    /\ ObjectInit

\* A request is dispatched to a handler, in the thread that serves it: the
\* first statement of each handler is session = DatabaseManager.get_session().
Request ==
    /\ handler.pc \in {"idle", "done"}
    /\ \E route \in Routes, thread \in Threads :
        /\ route = "create_telecommand" =>
               /\ TelecommandIds \ DOMAIN db.telecommands # {}
               /\ NewId(TelecommandIds, db.telecommands) \in RouteTelecommandIds
        /\ LET r == create_session(configs[_db_config], thread, engines)
           IN  /\ configs' = [configs EXCEPT ![_db_config] = r.cfg]
               /\ engines' = r.engines
        /\ call' = [op |-> "get_session", result |-> "session"]
        /\ handler' = [route |-> route, pc |-> "try", session |-> "open",
                       calls |-> <<>>, path |-> "none"]
    /\ UNCHANGED <<storeVars, _instance, _db_config, held, lifecycleVars, req, objectVars>>

\* The try body of index: five queries and the rendering. A query the
\* database fails raises (fault).
IndexBody ==
    /\ handler.pc = "try" /\ handler.route = "index"
    /\ \E fault \in BOOLEAN :
        handler' = leave_try(handler, IF fault THEN "exception" ELSE "success")
    /\ UNCHANGED <<storeVars, managerVars, lifecycleVars, req, objectVars>>

\* The try body of create_telecommand.
CreateBody ==
    /\ handler.pc = "try" /\ handler.route = "create_telecommand"
    /\ \E form \in CreateForms, fault \in BOOLEAN :
        LET r == create_telecommand(db, form, now) IN
        IF r.result = "invalid_json"
        THEN /\ handler' = leave_try(handler, "early_return")
             /\ db' = db
        ELSE IF fault \/ r.result = "error"
        THEN /\ handler' = leave_try(handler, "exception")
             /\ db' = db
        ELSE /\ handler' = leave_try(session_commit(handler), "success")
             /\ db' = r.db
    /\ UNCHANGED <<last, managerVars, lifecycleVars, req, objectVars>>

\* The try body of update_telecommand.
UpdateBody ==
    /\ handler.pc = "try" /\ handler.route = "update_telecommand"
    /\ \E tc_id \in TelecommandIds, data \in UpdateData, fault \in BOOLEAN :
        LET r == update_telecommand(db, tc_id, data, now) IN
        IF fault \/ r.code = 500
        THEN /\ handler' = leave_try(handler, "exception")
             /\ db' = db
        ELSE IF r.code \in {404, 400}
        THEN /\ handler' = leave_try(handler, "early_return")
             /\ db' = db
        ELSE /\ handler' = leave_try(session_commit(handler), "success")
             /\ db' = r.db
    /\ UNCHANGED <<last, managerVars, lifecycleVars, req, objectVars>>

\* The try body of delete_telecommand: a telecommand that is not there is
\* flashed and nothing is committed.
DeleteBody ==
    /\ handler.pc = "try" /\ handler.route = "delete_telecommand"
    /\ \E tc_id \in TelecommandIds, fault \in BOOLEAN :
        LET r == delete_telecommand(db, tc_id) IN
        IF fault \/ r.result = "error"
        THEN /\ handler' = leave_try(handler, "exception")
             /\ db' = db
        ELSE IF r.result = "not_found"
        THEN /\ handler' = leave_try(handler, "not_found")
             /\ db' = db
        ELSE /\ handler' = leave_try(session_commit(handler), "success")
             /\ db' = r.db
    /\ UNCHANGED <<last, managerVars, lifecycleVars, req, objectVars>>

Except_NoRollback ==
    /\ handler.pc = "except"
    /\ handler' = [handler EXCEPT !.pc = "finally"]
    /\ UNCHANGED <<storeVars, managerVars, lifecycleVars, req, objectVars>>

\* except Exception: session.rollback(), then the flash or the 500 response.
Except ==
    /\ handler.pc = "except"
    /\ handler' = [session_rollback(handler) EXCEPT !.pc = "finally"]
    /\ UNCHANGED <<storeVars, managerVars, lifecycleVars, req, objectVars>>

\* finally: session.close(); the handler then returns, or the exception of
\* index goes on to Flask.
Finally ==
    /\ handler.pc = "finally"
    /\ handler' = [session_close(handler) EXCEPT !.pc = "done"]
    /\ UNCHANGED <<storeVars, managerVars, lifecycleVars, req, objectVars>>

\* The statements of a handler that has been entered.
HandlerStep ==
    IndexBody \/ CreateBody \/ UpdateBody \/ DeleteBody \/ Except \/ Finally

NextRequests ==
    \/ Request
    \/ IndexBody
    \/ CreateBody
    \/ UpdateBody
    \/ DeleteBody
    \/ Except
    \/ Finally

\* A handler that was entered runs on: Flask executes it to its return or to
\* the exception that leaves it, and a finally clause always runs.
SpecRequests == InitRequests /\ [][NextRequests]_vars /\ WF_vars(HandlerStep)

\* The handler has returned, or its exception has left it, holding a session.
Served == handler.pc = "done" /\ handler.session # "none"

\* The positions in the session calls of a handler at which a call was made.
CallsOf(name) == {i \in DOMAIN handler.calls : handler.calls[i] = name}

\* session.rollback() was called, and before session.close().
RolledBackBeforeClose ==
    /\ CallsOf("rollback") # {}
    /\ \A i \in CallsOf("rollback"), j \in CallsOf("close") : i < j

\* No session.commit() after a session.rollback().
NoCommitAfterRollback ==
    \A i \in CallsOf("rollback"), j \in CallsOf("commit") : j < i

\* C22 as stated: every request handled by index, create_telecommand,
\* update_telecommand or delete_telecommand eventually closes the session it
\* obtained, on every path; on an exception path the session is rolled back
\* before it is closed and nothing is committed afterwards.
C22_RollbackBeforeCloseEverywhere ==
    /\ [](Served /\ handler.path = "exception"
            => RolledBackBeforeClose /\ NoCommitAfterRollback)
    /\ [][handler.path = "exception" => db' = db]_vars
    /\ ((handler.session = "open") ~> (handler.session = "closed"))

\* C22 amended: every request handled by one of the four handlers eventually
\* closes the session it obtained, on every path, and close is the last call
\* on the session. On an exception path of create_telecommand,
\* update_telecommand or delete_telecommand the session is rolled back before
\* it is closed; on an exception path of index, which has no except clause,
\* the session is closed without a rollback call. On no exception path is
\* anything committed, before or after.
C22_SessionClosedOnEveryPath ==
    /\ [](Served =>
            /\ handler.session = "closed"
            /\ CallsOf("close") = {Len(handler.calls)}
            /\ handler.path = "exception" =>
                 /\ NoCommitAfterRollback
                 /\ CallsOf("commit") = {}
                 /\ IF handler.route \in RoutesWithExcept
                    THEN handler.calls = <<"rollback", "close">>
                    ELSE handler.calls = <<"close">>
            /\ handler.path \in {"early_return", "not_found"} =>
                 handler.calls = <<"close">>
            /\ handler.path = "success" =>
                 handler.calls = IF handler.route = "index" THEN <<"close">>
                                 ELSE <<"commit", "close">>)
    /\ [][handler.path = "exception" => db' = db]_vars
    /\ ((handler.session = "open") ~> (handler.session = "closed"))

\* An exception path of update_telecommand taken to the end, after an earlier
\* request committed a telecommand: rolled back, then closed.
C22_Witness ==
    /\ Served
    /\ handler.path = "exception"
    /\ handler.route = "update_telecommand"
    /\ handler.calls = <<"rollback", "close">>
    /\ handler.session = "closed"
    /\ db # SeededDb

====
